---- MODULE Spec2Model ----
(***************************************************************************)
(* Model of the multi-source sports-event aggregator of NESAKO             *)
(* (src/ai_assistant/sports_aggregator.py), of the adapter code it calls   *)
(* (sofascore.py, fudbal91.py, tsdb.py) and of the background task         *)
(* processor (task_processor.py).                                          *)
(*                                                                         *)
(* Text is a sequence of one-character strings, so that strip(), lower(),  *)
(* replace() and split() are computed the way Python computes them.  The   *)
(* en-dash character is written "en".  A kickoff value is a record that    *)
(* keeps what datetime.fromisoformat can tell apart: whether the text is   *)
(* ISO-8601 at all, its wall-clock time in seconds, and its UTC offset     *)
(* (or none).  A confidence is kept in hundredths (0.67 is 67).            *)
(*                                                                         *)
(* Spec is one call of aggregate_verify without key and date, SpecKeyed    *)
(* one call with a competition key or a date, SpecPure direct calls of     *)
(* single functions on arguments of every kind, and SpecCache a sequence   *)
(* of calls of sofascore.fetch_quick and fudbal91.fetch_quick_odds while   *)
(* the clock advances.  SpecBypass is one call of aggregate_verify with    *)
(* nocache=True over caches earlier calls may have filled, SpecRace two    *)
(* threads that call the adapters at the same time.  SpecTasks is the      *)
(* HeavyTaskProcessor with its workers, retry threads and callers,         *)
(* SpecPlainTasks the same when every task has an id of its own and no     *)
(* recovery function, and SpecTasksFair SpecTasks with fair threads.       *)
(***************************************************************************)
EXTENDS Integers, Sequences, FiniteSets, TLC

VARIABLES
    pc,        \* position inside aggregate_verify
    args,      \* the call's arguments (team, hours, key, date, exact, nocache, debug)
    sources,   \* the list `sources` of adapter answers
    used,      \* the list `used`
    tagged,    \* the flattened list of (event, source) pairs
    idx,       \* position of the grouping loop in `tagged`
    groups,    \* the list `groups`
    results,   \* the list `results`
    out,       \* the returned dictionary
    probe,     \* argument/result cell of a direct call of one function
    clock,     \* datetime.now(timezone.utc), in seconds
    cache,     \* sofascore._CACHE
    fetched,   \* what each provider did when the current run asked it
    fud_cache, \* fudbal91._CACHE
    threads,   \* concurrent adapter calls: each one's position and locals
    writes,    \* per cache, the entry the last concurrent call to store wrote
    tasks,         \* HeavyTaskProcessor.tasks: task id -> its dictionary
    task_dicts,    \* the task dictionaries create_task has built, in order
    task_queue,    \* HeavyTaskProcessor.task_queue
    workers,       \* position and locals of each worker thread
    retry_threads, \* the retry_task threads that have not finished
    targets,       \* the target threads of _run_with_timeout still running
    task_history,  \* HeavyTaskProcessor.task_history
    invoked,       \* how often each task's function has been called
    cancelled      \* the tasks cancel_task succeeded on while they were pending
                   \* or retrying, with `invoked` at that time

aggVars == <<pc, args, sources, used, tagged, idx, groups, results, out, fetched>>
cacheVars == <<clock, cache>>
raceVars == <<threads, writes>>
tpVars == <<tasks, task_dicts, task_queue, workers, retry_threads, targets, task_history,
            invoked, cancelled>>
vars == <<pc, args, sources, used, tagged, idx, groups, results, out, probe,
          clock, cache, fetched, fud_cache, raceVars, tpVars>>

----------------------------------------------------------------------------
(* Bounds of the model *)

\* longest list of provider events one sofascore answer holds
MaxSofa == 2
\* longest list of rows one fudbal91 page holds
MaxFud == 2
\* largest agree_count / total_sources handed to _confidence directly
MaxVotes == 6
\* longest `results` list sorted directly
MaxResults == 3
\* how often the clock advances between calls of sofascore.fetch_quick
MaxTicks == 3
\* how many times create_task is called
MaxCreates == 2
\* the constructor arguments of HeavyTaskProcessor
max_workers == 2
max_retries == 2

----------------------------------------------------------------------------
(* Python helpers on text *)

Range(f) == {f[i] : i \in DOMAIN f}

SeqsUpTo(S, n) == UNION {[1..k -> S] : k \in 0..n}

LowerTable ==
    [A |-> "a", B |-> "b", C |-> "c", E |-> "e", L |-> "l", P |-> "p", S |-> "s"]

LowerChar(c) == IF c \in DOMAIN LowerTable THEN LowerTable[c] ELSE c

lower(s) == [i \in 1..Len(s) |-> LowerChar(s[i])]

RECURSIVE lstrip(_)
lstrip(s) == IF s # <<>> /\ Head(s) = " " THEN lstrip(Tail(s)) ELSE s

RECURSIVE rstrip(_)
rstrip(s) ==
    IF s # <<>> /\ s[Len(s)] = " " THEN rstrip(SubSeq(s, 1, Len(s) - 1)) ELSE s

strip(s) == rstrip(lstrip(s))

replace(s, old, new) == [i \in 1..Len(s) |-> IF s[i] = old THEN new ELSE s[i]]

RECURSIVE split(_, _)
split(s, sep) ==
    IF \E i \in 1..Len(s) : s[i] = sep
    THEN LET i == CHOOSE k \in 1..Len(s) :
                      s[k] = sep /\ \A j \in 1..(k - 1) : s[j] # sep
         IN  <<SubSeq(s, 1, i - 1)>> \o split(SubSeq(s, i + 1, Len(s)), sep)
    ELSE <<s>>

\* Python's `sub in s`
Contains(s, sub) ==
    \E i \in 0..(Len(s) - Len(sub)) : SubSeq(s, i + 1, i + Len(sub)) = sub

\* sports_aggregator._norm: (s or "").strip().lower()
_norm(s) == lower(strip(s))

----------------------------------------------------------------------------
(* Kickoff values *)

\* The value None
KNone == [kind |-> "None", local |-> 0, off |-> 0]
\* The empty string
KEmpty == [kind |-> "empty", local |-> 0, off |-> 0]
\* Text that is no ISO-8601 timestamp
KText == [kind |-> "text", local |-> 0, off |-> 0]
\* "YYYY-MM-DDTHH:MM:SS+hh:mm": wall-clock second `t`, UTC offset `o` seconds
KAware(t, o) == [kind |-> "aware", local |-> t, off |-> o]
\* "YYYY-MM-DDTHH:MM:SSZ"
KZulu(t) == [kind |-> "zulu", local |-> t, off |-> 0]
\* "YYYY-MM-DDTHH:MM:SS" without offset
KNaive(t) == [kind |-> "naive", local |-> t, off |-> 0]

\* datetime.fromtimestamp(ts, tz=timezone.utc).isoformat()
IsoformatUtc(ts) == KAware(ts, 0)

\* sports_aggregator._parse_iso: None on any failure, else the datetime
\* (aware datetimes carry their offset, "Z" is rewritten to "+00:00").
_parse_iso(k) ==
    CASE k.kind \in {"None", "empty", "text"} ->
            [ok |-> FALSE, aware |-> FALSE, local |-> 0, off |-> 0]
      [] k.kind = "zulu" ->
            [ok |-> TRUE, aware |-> TRUE, local |-> k.local, off |-> 0]
      [] k.kind = "aware" ->
            [ok |-> TRUE, aware |-> TRUE, local |-> k.local, off |-> k.off]
      [] k.kind = "naive" ->
            [ok |-> TRUE, aware |-> FALSE, local |-> k.local, off |-> 0]

\* The instant of a parsed datetime, in seconds (datetime.timestamp(); a
\* naive datetime is read in the process's zone, taken as UTC here).
Instant(d) == d.local - d.off

Abs(x) == IF x < 0 THEN -x ELSE x

----------------------------------------------------------------------------
(* _similar_event and _confidence *)

\* the 30 minutes of _similar_event, in seconds
KickoffTolerance == 1800

\* Lines 44-46: the stripped parts of the normalised match text
MatchParts(m) ==
    LET ps == split(replace(_norm(m), "en", "-"), "-")
    IN  [i \in 1..Len(ps) |-> strip(ps[i])]

\* Variant of the team comparison: the parts are compared as lists, so a
\* home/away swap is not tolerated
TeamsAgreeInOrder(a, b) ==
    LET parts_a == MatchParts(a.match)
        parts_b == MatchParts(b.match)
    IN  IF Len(parts_a) = 2 /\ Len(parts_b) = 2
        THEN parts_a = parts_b
        ELSE _norm(a.match) = _norm(b.match)

\* Lines 47-54: FALSE when the team comparison makes _similar_event
\* return False
TeamsAgree(a, b) ==
    LET parts_a == MatchParts(a.match)
        parts_b == MatchParts(b.match)
    IN  IF Len(parts_a) = 2 /\ Len(parts_b) = 2
        THEN Range(parts_a) = Range(parts_b)
        ELSE _norm(a.match) = _norm(b.match)

\* Variant of _similar_event: a tolerance of one hour
SimilarOutcomeOneHour(a, b) ==
    LET ka == _parse_iso(a.kickoff)
        kb == _parse_iso(b.kickoff)
    IN  IF ~TeamsAgree(a, b) THEN "False"
        ELSE IF ~ka.ok \/ ~kb.ok THEN "True"
        ELSE IF ka.aware # kb.aware THEN "TypeError"
        ELSE IF Abs(Instant(ka) - Instant(kb)) <= 2 * KickoffTolerance
             THEN "True" ELSE "False"

\* Variant of _similar_event: `if not ka and not kb` at line 58, so one
\* missing kickoff reaches the subtraction of line 60
SimilarOutcomeBothMissing(a, b) ==
    LET ka == _parse_iso(a.kickoff)
        kb == _parse_iso(b.kickoff)
    IN  IF ~TeamsAgree(a, b) THEN "False"
        ELSE IF ~ka.ok /\ ~kb.ok THEN "True"
        ELSE IF ~ka.ok \/ ~kb.ok \/ ka.aware # kb.aware THEN "TypeError"
        ELSE IF Abs(Instant(ka) - Instant(kb)) <= KickoffTolerance
             THEN "True" ELSE "False"

\* The outcome of _similar_event(a, b): "True", "False", or "TypeError"
\* when an aware datetime is subtracted from a naive one (line 60).
SimilarOutcome(a, b) ==
    LET ka == _parse_iso(a.kickoff)
        kb == _parse_iso(b.kickoff)
    IN  IF ~TeamsAgree(a, b) THEN "False"
        ELSE IF ~ka.ok \/ ~kb.ok THEN "True"
        ELSE IF ka.aware # kb.aware THEN "TypeError"
        ELSE IF Abs(Instant(ka) - Instant(kb)) <= KickoffTolerance
             THEN "True" ELSE "False"

_similar_event(a, b) == SimilarOutcome(a, b) = "True"

\* round(x, 2) of the exact quotient n / d (0 <= n < d), in hundredths;
\* Python rounds a tie to the even neighbour.
RoundHundredths(n, d) ==
    LET q == (100 * n) \div d
        r == (100 * n) % d
    IN  IF 2 * r > d THEN q + 1
        ELSE IF 2 * r < d THEN q
        ELSE IF q % 2 = 0 THEN q ELSE q + 1

\* Variant of _confidence: the quotient is cut to two decimals, not rounded
_confidenceTruncated(agree_count, total_sources) ==
    IF total_sources <= 0 THEN 0
    ELSE IF agree_count >= total_sources THEN 100
    ELSE IF agree_count <= 0 THEN 0
    ELSE (100 * agree_count) \div total_sources

\* sports_aggregator._confidence, in hundredths
_confidence(agree_count, total_sources) ==
    IF total_sources <= 0 THEN 0
    ELSE IF agree_count >= total_sources THEN 100
    ELSE IF agree_count <= 0 THEN 0
    ELSE RoundHundredths(agree_count, total_sources)

----------------------------------------------------------------------------
(* Call arguments and provider data *)

NoHours == [given |-> FALSE, h |-> 0]
Hours(n) == [given |-> TRUE, h |-> n]

\* Kickoff times of the provider data, in seconds
T0 == 2 * 3600
\* The clock read by the adapters during a call of aggregate_verify
Now == T0 - 600

\* team = None (the empty text stands for it: both are falsy) and the team
\* "s-e" written with a trailing blank
TeamArgs == {<<>>, <<"s", "-", "e", " ">>}
\* hours = None, hours = 1
HoursArgs == {NoHours, Hours(1)}

\* key = None (the empty text stands for it)
NoKey == <<>>
\* date = None (the empty text stands for it), a day, and text that is no day
NoDate == ""
DateArgs == {NoDate, "2025-09-27", "27/09"}
\* What the provider makes of the date spliced into the URL at line 136:
\* it has a schedule for a YYYY-MM-DD day only
IsDay(date) == date = "2025-09-27"

\* The arguments of aggregate_verify on the branch that takes the adapters'
\* quick listings (lines 79 and 93): key = None, date = None
ArgSets ==
    [team : TeamArgs, hours : HoursArgs, key : {NoKey}, date : {NoDate},
     exact : {FALSE}, nocache : {FALSE}, debug : {FALSE}]

\* The arguments of aggregate_verify when a competition key or a date is
\* given: a key of COMP_KEYS, one that is in neither table, a malformed date
KeyedArgSets ==
    [team : {<<>>}, hours : {NoHours},
     key : {<<"e", "p", "l">>, <<"x">>}, date : {NoDate, "27/09"},
     exact : BOOLEAN, nocache : {FALSE}, debug : {FALSE}]

SofaEvent(home, away, ts) ==
    [home |-> home, away |-> away, startTimestamp |-> ts,
     tournament |-> <<"P", "L">>, category |-> <<"E">>]

\* Events of a SofaScore scheduled-events answer.  startTimestamp 0 stands
\* for a missing one.
SofaProviderEvents ==
    { SofaEvent(<<"A">>, <<"B">>, T0),
      SofaEvent(<<"B">>, <<"a">>, T0 + 1800),
      SofaEvent(<<"A">>, <<"B", " ">>, T0 + 1801),
      [SofaEvent(<<"S", "-", "E">>, <<"L">>, T0)
          EXCEPT !.tournament = <<"L", "L">>, !.category = <<"S">>],
      SofaEvent(<<"A">>, <<"C">>, 0) }

\* What sofascore._get returns (lines 45-52) for the days of the window,
\* taken together: None (`got` is FALSE: the request raised, timed out, was
\* not answered 200 or was no JSON), JSON whose "events" is no list (`ok` is
\* FALSE: line 141 raises), or the events.
SofaPayloads(n) ==
    {[got |-> FALSE, ok |-> TRUE, events |-> <<>>],
     [got |-> TRUE, ok |-> FALSE, events |-> <<>>]}
    \cup {[got |-> TRUE, ok |-> TRUE, events |-> es] :
              es \in UNION {[1..k -> SofaProviderEvents] : k \in 0..n}}

\* What a row of a fudbal91 page yields before the window filter: league
\* text, teams text and the result of _parse_kickoff (UTC, or None).
FudRow(teams, parsed, t) ==
    [league |-> <<"P", "L">>, teams |-> teams,
     kickoff |-> [ok |-> parsed, t |-> t]]

Fudbal91Rows ==
    { FudRow(<<"B", " ", "en", " ", "A">>, TRUE, T0 + 1800),
      FudRow(<<"L", " ", "-", " ", "S", "-", "E">>, TRUE, T0),
      FudRow(<<" ", "a", "-", "b">>, TRUE, T0 + 3600),
      FudRow(<<"A", "B">>, TRUE, T0),
      FudRow(<<"A", " ", "-", " ", "B">>, FALSE, 0) }

\* What fudbal91._fetch_html and BeautifulSoup make of a page: no HTML
\* (`got` is FALSE: the request raised or was not answered 200), HTML the
\* parser raises on (`ok` is FALSE), or the rows selected at line 108.
FudPages(n) ==
    {[got |-> FALSE, ok |-> TRUE, rows |-> <<>>],
     [got |-> TRUE, ok |-> FALSE, rows |-> <<>>]}
    \cup {[got |-> TRUE, ok |-> TRUE, rows |-> rs] :
              rs \in UNION {[1..k -> Fudbal91Rows] : k \in 0..n}}

----------------------------------------------------------------------------
(* sofascore.py *)

_CACHE_TTL_SECONDS == 120

\* COMP_KEYS.get(k, []) (lines 19-29 and 129); the competition names are
\* abbreviated to their initials
COMP_KEYS_get(k) ==
    CASE k = <<"u", "c", "l">> -> << <<"C", "L">> >>
      [] k = <<"e", "p", "l">> -> << <<"P", "L">> >>
      [] k = <<"l", "a", "l", "i", "g", "a">> -> << <<"L", "L">>, <<"L", " ", "L">> >>
      [] k = <<"b", "u", "n", "d", "e", "s", "l", "i", "g", "a">> -> << <<"B">> >>
      [] k = <<"s", "e", "r", "i", "e", "a">> -> << <<"S", " ", "A">> >>
      [] k = <<"l", "i", "g", "u", "e", "1">> -> << <<"L", " ", "1">> >>
      [] k = <<"s", "e", "r", "b", "i", "a">> -> << <<"S", " ", "L">> >>
      [] OTHER -> <<>>

\* sofascore._match_comp (lines 82-98)
_match_comp(competitions, names, exact) ==
    IF competitions = <<>> THEN TRUE
    ELSE LET n1 == _norm(IF Len(names) > 0 THEN names[1] ELSE <<>>)
             n2 == _norm(IF Len(names) > 1 THEN names[2] ELSE <<>>)
             nm == strip(n1 \o <<" ">> \o n2)
         IN  IF exact
             THEN \E i \in DOMAIN competitions : _norm(competitions[i]) \in {n1, n2}
             ELSE \E i \in DOMAIN competitions : Contains(nm, _norm(competitions[i]))

\* sofascore._within_window (lines 70-75)
sofascore_within_window(ts, hours, now) ==
    IF ~hours.given THEN TRUE
    ELSE now <= ts /\ ts <= now + hours.h * 3600

\* str.strip(" -"): drop leading and trailing blanks and hyphens
RECURSIVE StripBlankHyphen(_)
StripBlankHyphen(s) ==
    IF s # <<>> /\ Head(s) \in {" ", "-"} THEN StripBlankHyphen(Tail(s))
    ELSE IF s # <<>> /\ s[Len(s)] \in {" ", "-"}
         THEN StripBlankHyphen(SubSeq(s, 1, Len(s) - 1))
         ELSE s

\* The item built at lines 161-172
SofaItem(ev) ==
    [league  |-> StripBlankHyphen(ev.category \o <<" ", "-", " ">> \o ev.tournament),
     match   |-> ev.home \o <<" ", "-", " ">> \o ev.away,
     kickoff |-> IsoformatUtc(ev.startTimestamp)]

\* The arguments of one call of fetch_quick (lines 101-110); `key` is the
\* one competition key fetch_competition passes on, or none
SofaCall(team, hours, key, date, exact, debug, nocache) ==
    [team |-> team, hours |-> hours, key |-> key, date |-> date,
     exact |-> exact, debug |-> debug, nocache |-> nocache]

\* Lines 144-158: whether an event passes the competition, timestamp,
\* window and team filters
SofaKeeps(ev, call, now) ==
    /\ call.key # NoKey =>
          _match_comp(COMP_KEYS_get(call.key), <<ev.tournament, ev.category>>,
                      call.exact)
    /\ ev.startTimestamp # 0
    /\ sofascore_within_window(ev.startTimestamp, call.hours, now)
    /\ \/ call.team = <<>>
       \/ Contains(_norm(ev.home), _norm(call.team))
       \/ Contains(_norm(ev.away), _norm(call.team))

\* Lines 125-174: the items of the events the provider returned for the
\* day(s) fetched
SofaItems(call, now, events) ==
    LET Keep(ev) == SofaKeeps(ev, call, now)
        kept == SelectSeq(events, Keep)
    IN  [i \in 1..Len(kept) |-> SofaItem(kept[i])]

NoDebug == [present |-> FALSE, count |-> 0]

\* Lines 176-184: the response; `debug.present` is whether the dictionary
\* has the key "debug"
SofaResponse(items, debug) ==
    [source |-> "sofascore",
     items  |-> items,
     debug  |-> IF debug THEN [present |-> TRUE, count |-> Len(items)] ELSE NoDebug]

\* Line 119: the fields the cache key is formatted from
cache_key(call) ==
    [hours |-> call.hours, date |-> call.date, team |-> call.team,
     exact |-> call.exact, keys |-> call.key]

\* _CACHE.get(key) (line 33, and fudbal91 line 81): the entry as a list of
\* at most one element
EntryOf(c, key) == IF key \in DOMAIN c THEN <<c[key]>> ELSE <<>>

\* Variant of _cache_get without the test of line 36
_cache_get_at_any_age(c, key, now) ==
    IF key \notin DOMAIN c THEN [hit |-> FALSE, data |-> SofaResponse(<<>>, FALSE)]
    ELSE [hit |-> TRUE, data |-> c[key].data]

\* sofascore._cache_get (lines 32-38): `hit` is FALSE for None
_cache_get(c, key, now) ==
    IF key \notin DOMAIN c THEN [hit |-> FALSE, data |-> SofaResponse(<<>>, FALSE)]
    ELSE IF now - c[key].ts > _CACHE_TTL_SECONDS
         THEN [hit |-> FALSE, data |-> SofaResponse(<<>>, FALSE)]
         ELSE [hit |-> TRUE, data |-> c[key].data]

\* Variant of _cache_set that updates an entry in place, field by field,
\* and is overtaken after the first field
_cache_set_in_place(c, key, now, data) ==
    IF key \in DOMAIN c THEN (key :> [ts |-> c[key].ts, data |-> data]) @@ c
    ELSE (key :> [ts |-> now, data |-> data]) @@ c

\* sofascore._cache_set (lines 41-42): the new value of _CACHE
_cache_set(c, key, now, data) == (key :> [ts |-> now, data |-> data]) @@ c

\* sofascore.fetch_quick (lines 101-187), and fetch_competition (lines
\* 190-202) which passes its key on: what the call returns (or that it
\* raised), whether it answered from the cache, and the new value of _CACHE.
\* A cached response is a non-empty dictionary, so line 122 takes every hit.
sofascore_fetch_quick(call, now, c, payload) ==
    LET key == cache_key(call)
        cached == _cache_get(c, key, now)
        events == IF payload.got /\ (call.date = NoDate \/ IsDay(call.date))
                  THEN payload.events ELSE <<>>
        resp == SofaResponse(SofaItems(call, now, events), call.debug)
    IN  IF ~call.nocache /\ cached.hit
        THEN [raised |-> FALSE, hit |-> TRUE, resp |-> cached.data, cache |-> c]
        ELSE IF payload.got /\ ~payload.ok
                  /\ (call.date = NoDate \/ IsDay(call.date))
        THEN [raised |-> TRUE, hit |-> FALSE, resp |-> SofaResponse(<<>>, FALSE),
              cache |-> c]
        ELSE [raised |-> FALSE, hit |-> FALSE, resp |-> resp,
              cache |-> IF call.nocache THEN c ELSE _cache_set(c, key, now, resp)]

----------------------------------------------------------------------------
(* fudbal91.py *)

\* fudbal91._within_window (lines 69-75)
fudbal91_within_window(dt, hours, now) ==
    IF ~dt.ok THEN FALSE
    ELSE IF ~hours.given THEN TRUE
    ELSE now <= dt.t /\ dt.t <= now + hours.h * 3600

\* The item built at lines 155-160 (kickoff.isoformat() of a UTC datetime)
FudItem(row) ==
    [league  |-> row.league,
     match   |-> row.teams,
     kickoff |-> IF row.kickoff.ok THEN IsoformatUtc(row.kickoff.t) ELSE KNone]

\* TTL of fudbal91._CACHE (line 30)
fudbal91_CACHE_TTL_SECONDS == 120

\* The URL of the quick-odds page (line 98)
QuickOddsUrl == <<"q">>

\* The page _fetch_html returns for None
NoPage == [got |-> FALSE, ok |-> TRUE, rows |-> <<>>]

\* The entry line 91 stores: the time read at line 80 and the HTML
HtmlEntry(now, page) == [ts |-> now, html |-> page]

\* fudbal91._fetch_html (lines 78-94) when the site answers `page` to a
\* request: the HTML returned (`got` is FALSE for None), whether it came
\* from the cache, and the new value of fudbal91._CACHE.  A URL that
\* requests cannot open (`valid` is FALSE) makes sess.get raise.
_fetch_html(url, valid, now, c, page) ==
    IF url \in DOMAIN c /\ now - c[url].ts < fudbal91_CACHE_TTL_SECONDS
    THEN [hit |-> TRUE, html |-> c[url].html, cache |-> c]
    ELSE IF ~valid \/ ~page.got
    THEN [hit |-> FALSE, html |-> NoPage, cache |-> c]
    ELSE [hit |-> FALSE, html |-> page,
          cache |-> (url :> HtmlEntry(now, page)) @@ c]

\* fudbal91.fetch_quick_odds (lines 97-163): the items, given what
\* _fetch_html returned and the rows of the page
fetch_quick_odds(hours, now, page) ==
    LET Keep(row) == fudbal91_within_window(row.kickoff, hours, now)
        kept == SelectSeq(page.rows, Keep)
    IN  IF ~page.got THEN <<>> ELSE [i \in 1..Len(kept) |-> FudItem(kept[i])]

\* The keys of COMPETITION_MAP (lines 198-206)
COMPETITION_MAP_keys ==
    { <<"u", "c", "l">>, <<"l", "a", "l", "i", "g", "a">>, <<"e", "p", "l">>,
      <<"b", "u", "n", "d", "e", "s", "l", "i", "g", "a">>,
      <<"s", "e", "r", "i", "e", "a">>, <<"l", "i", "g", "u", "e", "1">>,
      <<"s", "e", "r", "b", "i", "a">> }

\* fudbal91.fetch_competition (lines 209-268).  A key that is not in
\* COMPETITION_MAP is taken for the URL itself (line 210); the keys of the
\* model are no URLs, so requests raises and _fetch_html returns None.
fudbal91_fetch_competition(url_or_key, hours, now, page) ==
    LET Keep(row) == fudbal91_within_window(row.kickoff, hours, now)
        kept == SelectSeq(page.rows, Keep)
    IN  IF lower(url_or_key) \notin COMPETITION_MAP_keys \/ ~page.got THEN <<>>
        ELSE [i \in 1..Len(kept) |-> FudItem(kept[i])]

----------------------------------------------------------------------------
(* tsdb.py *)

\* default n of tsdb.events_next_team
TsdbNextN == 5

\* longest list of events one TheSportsDB answer holds
MaxTsdb == 2

Min(a, b) == IF a < b THEN a ELSE b
Max(a, b) == IF a > b THEN a ELSE b

\* What tsdb.search_team returns (lines 24-37): None, or the idTeam text;
\* `failed` when it is None because tsdb._get returned None (the request
\* raised, timed out or was not answered 200)
TsdbSearchResults ==
    { [failed |-> TRUE, found |-> FALSE, id |-> <<>>],
      [failed |-> FALSE, found |-> FALSE, id |-> <<>>],
      [failed |-> FALSE, found |-> TRUE, id |-> <<>>],
      [failed |-> FALSE, found |-> TRUE, id |-> <<"1", "3">>] }

\* Raw TheSportsDB events: they carry strEvent, none of the keys
\* league / match / kickoff.
TsdbProviderEvents == { [strEvent |-> <<"A", " ", "v", "s", " ", "B">>] }

\* tsdb.events_next_team (lines 40-43): events[: max(1, min(n, len(events)))]
events_next_team(events) ==
    SubSeq(events, 1, Min(Len(events), Max(1, Min(TsdbNextN, Len(events)))))

----------------------------------------------------------------------------
(* The adapters of sports_aggregator.py *)

NoError == ""

SourceAnswer(name, items, err) == [source |-> name, items |-> items, error |-> err]

\* fetch_sofascore (lines 72-83): fetch_competition when a key is given,
\* else fetch_quick with keys=None
fetch_sofascore(a, available, payload, now, c) ==
    IF ~available THEN SourceAnswer("sofascore", <<>>, "module_unavailable")
    ELSE LET call == SofaCall(a.team, a.hours, a.key, a.date, a.exact,
                              a.debug, a.nocache)
             r == sofascore_fetch_quick(call, now, c, payload)
         IN  IF r.raised THEN SourceAnswer("sofascore", <<>>, "exception")
             ELSE SourceAnswer("sofascore", r.resp.items, NoError)

\* sofascore._CACHE after fetch_sofascore
fetch_sofascore_cache(a, available, payload, now, c) ==
    IF ~available THEN c
    ELSE sofascore_fetch_quick(SofaCall(a.team, a.hours, a.key, a.date, a.exact,
                                        a.debug, a.nocache),
                               now, c, payload).cache

\* fetch_fudbal91 (lines 86-101).  `page.ok` is FALSE when parsing the page
\* raises (e.g. the lxml parser is missing).
fetch_fudbal91(a, available, page, now) ==
    IF ~available THEN SourceAnswer("fudbal91", <<>>, "module_unavailable")
    ELSE IF page.got /\ ~page.ok /\ (a.key = NoKey \/ lower(a.key) \in COMPETITION_MAP_keys)
    THEN SourceAnswer("fudbal91", <<>>, "exception")
    ELSE LET items == IF a.key # NoKey
                      THEN fudbal91_fetch_competition(a.key, a.hours, now, page)
                      ELSE fetch_quick_odds(a.hours, now, page)
             Keep(it) == Contains(_norm(it.match), _norm(a.team))
         IN  SourceAnswer("fudbal91",
                          IF a.team # <<>> THEN SelectSeq(items, Keep) ELSE items,
                          NoError)

\* The URL fetch_quick_odds (line 98) or fetch_competition (line 210) hands
\* to _fetch_html for fetch_fudbal91, and whether requests can open it
FudUrl(a) == IF a.key = NoKey THEN QuickOddsUrl ELSE lower(a.key)
FudUrlValid(a) == a.key = NoKey \/ lower(a.key) \in COMPETITION_MAP_keys

\* What _fetch_html does during fetch_fudbal91
fetch_fudbal91_html(a, available, page, now, c) ==
    IF ~available THEN [hit |-> FALSE, html |-> NoPage, cache |-> c]
    ELSE _fetch_html(FudUrl(a), FudUrlValid(a), now, c, page)

\* Lines 112-116: iterating the result of search_team.  None is not
\* iterable and the characters of an id have no .get, so the loop raises
\* unless the id is the empty text; team_id stays None either way.
TsdbTeamId(searched) ==
    IF ~searched.found THEN [raised |-> TRUE, id |-> <<>>]
    ELSE IF searched.id = <<>> THEN [raised |-> FALSE, id |-> <<>>]
    ELSE [raised |-> TRUE, id |-> <<>>]

\* The item built at lines 119-126: ev.get(key, "") of a raw event
TsdbItem(ev) == [league |-> <<>>, match |-> <<>>, kickoff |-> KEmpty]

\* What the provider did for fetch_sofascore: it was not asked (the module
\* is missing, or the cache answered), the request failed, the answer was
\* malformed, or it answered
SofaFetched(a, available, payload, now, c) ==
    IF ~available THEN "not_asked"
    ELSE IF sofascore_fetch_quick(SofaCall(a.team, a.hours, a.key, a.date,
                                            a.exact, a.debug, a.nocache),
                                   now, c, payload).hit
    THEN "cached"
    ELSE IF ~payload.got \/ ~(a.date = NoDate \/ IsDay(a.date)) THEN "failed"
    ELSE IF ~payload.ok THEN "malformed"
    ELSE "answered"

\* The same for fetch_fudbal91, given what _fetch_html returned and whether
\* it took it from the cache
FudFetched(a, available, hit, page) ==
    IF ~available THEN "not_asked"
    ELSE IF hit THEN "cached"
    ELSE IF ~page.got \/ ~(a.key = NoKey \/ lower(a.key) \in COMPETITION_MAP_keys)
    THEN "failed"
    ELSE IF ~page.ok THEN "malformed"
    ELSE "answered"

TsdbFetched(a, available, searched) ==
    IF ~available \/ a.team = <<>> THEN "not_asked"
    ELSE IF searched.failed THEN "failed"
    ELSE "answered"

\* fetch_tsdb (lines 104-132)
fetch_tsdb(team, available, searched, events) ==
    IF ~available THEN SourceAnswer("tsdb", <<>>, "module_unavailable")
    ELSE LET r == TsdbTeamId(searched)
             next == events_next_team(events)
             items == IF team = <<>> \/ r.raised \/ r.id = <<>> THEN <<>>
                      ELSE [i \in 1..Len(next) |-> TsdbItem(next[i])]
         IN  SourceAnswer("tsdb", items, NoError)

----------------------------------------------------------------------------
(* aggregate_verify *)

Tagged(ev, src) == [ev |-> ev, src |-> src]

RECURSIVE FlattenFrom(_, _)
\* Lines 159-162: the items of sources[i..], each paired with its source tag
FlattenFrom(srcs, i) ==
    IF i > Len(srcs) THEN <<>>
    ELSE [k \in 1..Len(srcs[i].items) |-> Tagged(srcs[i].items[k], srcs[i].source)]
         \o FlattenFrom(srcs, i + 1)

RECURSIVE FlattenDownFrom(_, _)
FlattenDownFrom(srcs, i) ==
    IF i < 1 THEN <<>>
    ELSE [k \in 1..Len(srcs[i].items) |-> Tagged(srcs[i].items[k], srcs[i].source)]
         \o FlattenDownFrom(srcs, i - 1)

\* Variant of the flattening: the sources are taken last to first
FlattenedBackwards(srcs) == FlattenDownFrom(srcs, Len(srcs))

Flattened(srcs) == FlattenFrom(srcs, 1)

RECURSIVE FirstSimilarFrom(_, _, _)
\* Lines 168-172: the scan of `groups` from position i.  The index of the
\* first group whose first member is similar to ev, 0 when there is none,
\* -1 when a comparison raises before one is found.
FirstSimilarFrom(ev, gs, i) ==
    IF i > Len(gs) THEN 0
    ELSE LET o == SimilarOutcome(ev, gs[i][1].ev)
         IN  IF o = "True" THEN i
             ELSE IF o = "TypeError" THEN -1
             ELSE FirstSimilarFrom(ev, gs, i + 1)

FirstSimilar(ev, gs) == FirstSimilarFrom(ev, gs, 1)

\* Variant of the loop body: the event is appended to every group whose
\* first member is similar (no `break`)
PlacedInEverySimilar(gs, t) ==
    IF \A i \in 1..Len(gs) : ~_similar_event(t.ev, gs[i][1].ev)
    THEN Append(gs, <<t>>)
    ELSE [i \in 1..Len(gs) |->
            IF _similar_event(t.ev, gs[i][1].ev) THEN Append(gs[i], t) ELSE gs[i]]

\* Variant of the loop body: the scan keeps the last similar group
PlacedInLastSimilar(gs, t) ==
    LET S == {i \in 1..Len(gs) : _similar_event(t.ev, gs[i][1].ev)}
    IN  IF S = {} THEN Append(gs, <<t>>)
        ELSE [gs EXCEPT ![CHOOSE i \in S : \A j \in S : j <= i] = Append(@, t)]

\* Variant of the loop body: `placed` is not set at line 171, so an event
\* that joined a group opens one of its own as well
PlacedAndOpened(gs, t) ==
    LET i == FirstSimilarFrom(t.ev, gs, 1)
    IN  IF i = 0 THEN Append(gs, <<t>>)
        ELSE Append([gs EXCEPT ![i] = Append(@, t)], <<t>>)

\* Lines 166-174 for one (ev, src): the new value of `groups`
Placed(gs, t) ==
    LET i == FirstSimilar(t.ev, gs)
    IN  IF i = 0 THEN Append(gs, <<t>>)
        ELSE [gs EXCEPT ![i] = Append(@, t)]

\* Line 181: the source tags of a group's members
Evidence(g) == [k \in 1..Len(g) |-> g[k].src]

\* Variant of line 177: only the sources that answered without an error
\* are counted
TotalSourcesWithoutError(usedList) ==
    Cardinality({i \in DOMAIN usedList :
                    usedList[i] # "" /\ sources[i].error = NoError})

\* Line 177
TotalSources(usedList) == Cardinality({i \in DOMAIN usedList : usedList[i] # ""})

\* Variant of lines 180-185: every member counts towards the confidence
ResultOfCountingMembers(g, total_sources) ==
    [league     |-> g[1].ev.league,
     match      |-> g[1].ev.match,
     kickoff    |-> g[1].ev.kickoff,
     evidence   |-> Evidence(g),
     confidence |-> _confidence(Len(Evidence(g)), total_sources)]

\* Lines 180-185: the result record of one group
ResultOf(g, total_sources) ==
    [league     |-> g[1].ev.league,
     match      |-> g[1].ev.match,
     kickoff    |-> g[1].ev.kickoff,
     evidence   |-> Evidence(g),
     confidence |-> _confidence(Cardinality(Range(Evidence(g))), total_sources)]

\* Variant of line 180 without .copy(): rep is the adapter's dictionary
RepIsAdapterItem(g) == TRUE

\* Line 180: whether `rep`, the dictionary lines 183-184 assign 'evidence'
\* and 'confidence' to, is the dictionary the adapter returned.  It is a
\* copy of it.
RepIsItem(g) == FALSE

\* An item dictionary of the adapter `src` after lines 180-185 ran over the
\* groups: it holds the two new keys if it was some group's `rep`
ItemAfterScoring(it, src, gs, total_sources) ==
    IF \E i \in DOMAIN gs : RepIsItem(gs[i]) /\ gs[i][1] = [ev |-> it, src |-> src]
    THEN ResultOf(gs[CHOOSE i \in DOMAIN gs :
                        RepIsItem(gs[i]) /\ gs[i][1] = [ev |-> it, src |-> src]],
                  total_sources)
    ELSE it

\* sofascore._CACHE after lines 176-185: a cached response is the very
\* dictionary fetch_sofascore returned, and its items are the dictionaries
\* that were grouped
CacheAfterScoring(c, gs, total_sources) ==
    [k \in DOMAIN c |->
        [c[k] EXCEPT !.data.items =
            [i \in DOMAIN @ |-> ItemAfterScoring(@[i], "sofascore", gs, total_sources)]]]

\* Variant of _kick_ts: 0.0, not float("inf"), for a kickoff that does not
\* parse
_kick_ts_zero_when_missing(e) ==
    LET d == _parse_iso(e.kickoff)
    IN  IF d.ok THEN [inf |-> FALSE, ts |-> Instant(d)]
        ELSE [inf |-> FALSE, ts |-> 0]

\* Lines 188-190: the sort key; `inf` stands for float("inf")
_kick_ts(e) ==
    LET d == _parse_iso(e.kickoff)
    IN  IF d.ok THEN [inf |-> FALSE, ts |-> Instant(d)]
        ELSE [inf |-> TRUE, ts |-> 0]

KeyLE(a, b) == b.inf \/ (~a.inf /\ a.ts <= b.ts)

\* r put behind the last element of the sorted list rs whose key is not
\* larger than r's
InsertByKick(rs, r) ==
    LET after == {i \in 1..Len(rs) : KeyLE(_kick_ts(rs[i]), _kick_ts(r))}
        n == IF after = {} THEN 0 ELSE CHOOSE i \in after : \A j \in after : j <= i
    IN  SubSeq(rs, 1, n) \o <<r>> \o SubSeq(rs, n + 1, Len(rs))

RECURSIVE SortedPrefix(_, _)
SortedPrefix(rs, n) ==
    IF n = 0 THEN <<>> ELSE InsertByKick(SortedPrefix(rs, n - 1), rs[n])

\* Line 192: list.sort(key=_kick_ts), a stable sort
SortByKick(rs) == SortedPrefix(rs, Len(rs))

Idle == [fn |-> "none"]

\* aggregate_verify is not running
NoArgs ==
    [team |-> <<>>, hours |-> NoHours, key |-> NoKey, date |-> NoDate,
     exact |-> FALSE, nocache |-> FALSE, debug |-> FALSE]

\* No concurrent adapter calls are under way
NoRace == threads = <<>> /\ writes = <<>>

\* No HeavyTaskProcessor has been constructed
NoProcessor ==
    /\ tasks = <<>>
    /\ task_dicts = <<>>
    /\ task_queue = <<>>
    /\ workers = <<>>
    /\ retry_threads = <<>>
    /\ targets = <<>>
    /\ task_history = <<>>
    /\ invoked = <<>>
    /\ cancelled = <<>>

NoOut == [used |-> <<>>, results |-> <<>>, sources |-> <<>>, counts |-> <<>>]

Init ==
    /\ pc = "start"
    /\ args \in ArgSets
    /\ sources = <<>>
    /\ used = <<>>
    /\ tagged = <<>>
    /\ idx = 1
    /\ groups = <<>>
    /\ results = <<>>
    /\ out = NoOut
    /\ probe = Idle
    /\ clock = Now
    /\ cache = <<>>
    /\ fetched = <<>>
    /\ fud_cache = <<>>
    /\ NoRace
    /\ NoProcessor

\* Line 153
QuerySofascore ==
    /\ pc = "start"
    /\ \E available \in BOOLEAN, payload \in SofaPayloads(MaxSofa) :
          /\ sources' = Append(sources,
                               fetch_sofascore(args, available, payload, clock, cache))
          /\ cache' = fetch_sofascore_cache(args, available, payload, clock, cache)
          /\ fetched' = Append(fetched,
                               SofaFetched(args, available, payload, clock, cache))
    /\ pc' = "sofascore_done"
    /\ UNCHANGED <<args, used, tagged, idx, groups, results, out, probe,
                   clock, fud_cache, raceVars, tpVars>>

\* Line 154.  fetch_fudbal91 has no use for nocache: _fetch_html consults
\* and fills fudbal91._CACHE on every call.
QueryFudbal91 ==
    /\ pc = "sofascore_done"
    /\ \E available \in BOOLEAN, page \in FudPages(MaxFud) :
          LET r == fetch_fudbal91_html(args, available, page, clock, fud_cache)
          IN  /\ sources' = Append(sources,
                                   fetch_fudbal91(args, available, r.html, clock))
              /\ fetched' = Append(fetched,
                                   FudFetched(args, available, r.hit, r.html))
              /\ fud_cache' = r.cache
    /\ pc' = "fudbal91_done"
    /\ UNCHANGED <<args, used, tagged, idx, groups, results, out, probe,
                   clock, cache, raceVars, tpVars>>

\* Line 155
QueryTsdb ==
    /\ pc = "fudbal91_done"
    /\ \E available \in BOOLEAN,
          searched \in TsdbSearchResults,
          events \in SeqsUpTo(TsdbProviderEvents, MaxTsdb) :
          /\ sources' = Append(sources,
                               fetch_tsdb(args.team, available, searched, events))
          /\ fetched' = Append(fetched, TsdbFetched(args, available, searched))
    /\ pc' = "queried"
    /\ UNCHANGED <<args, used, tagged, idx, groups, results, out, probe,
                   clock, cache, fud_cache, raceVars, tpVars>>

\* Lines 157-162
Flatten ==
    /\ pc = "queried"
    /\ used' = [i \in 1..Len(sources) |-> sources[i].source]
    /\ tagged' = Flattened(sources)
    /\ idx' = 1
    /\ groups' = <<>>
    /\ pc' = "group"
    /\ UNCHANGED <<args, sources, results, out, probe, clock, cache, fetched,
                   fud_cache, raceVars, tpVars>>

\* Lines 166-174, one iteration of the loop over `tagged`.  A TypeError of
\* _similar_event leaves aggregate_verify.
GroupStep ==
    /\ pc = "group"
    /\ idx <= Len(tagged)
    /\ IF FirstSimilar(tagged[idx].ev, groups) = -1
       THEN pc' = "raised" /\ UNCHANGED <<groups, idx>>
       ELSE /\ groups' = Placed(groups, tagged[idx])
            /\ idx' = idx + 1
            /\ pc' = "group"
    /\ UNCHANGED <<args, sources, used, tagged, results, out, probe, clock,
                   cache, fetched, fud_cache, raceVars, tpVars>>

\* Lines 176-185
Score ==
    /\ pc = "group"
    /\ idx > Len(tagged)
    /\ results' = [i \in 1..Len(groups) |-> ResultOf(groups[i], TotalSources(used))]
    /\ cache' = CacheAfterScoring(cache, groups, TotalSources(used))
    /\ pc' = "sort"
    /\ UNCHANGED <<args, sources, used, tagged, idx, groups, out, probe, clock,
                   fetched, fud_cache, raceVars, tpVars>>

\* Lines 187-192
Sort ==
    /\ pc = "sort"
    /\ results' = SortByKick(results)
    /\ pc' = "return"
    /\ UNCHANGED <<args, sources, used, tagged, idx, groups, out, probe,
                   clock, cache, fetched, fud_cache, raceVars, tpVars>>

SourceNames == {"sofascore", "fudbal91", "tsdb"}

\* The answer of the source called `name` (the dict comprehensions of
\* lines 197-198 keep the last answer with a given name)
AnswerOf(srcs, name) ==
    srcs[CHOOSE i \in DOMAIN srcs :
            srcs[i].source = name /\ \A j \in DOMAIN srcs : srcs[j].source = name => j <= i]

\* Lines 194-199
Return ==
    /\ pc = "return"
    /\ out' = [used    |-> used,
               results |-> results,
               sources |-> [n \in Range(used) |->
                              [error |-> AnswerOf(sources, n).error,
                               count |-> Len(AnswerOf(sources, n).items)]],
               counts  |-> [n \in Range(used) |-> Len(AnswerOf(sources, n).items)]]
    /\ pc' = "done"
    /\ UNCHANGED <<args, sources, used, tagged, idx, groups, results, probe,
                   clock, cache, fetched, fud_cache, raceVars, tpVars>>

Next ==
    \/ QuerySofascore
    \/ QueryFudbal91
    \/ QueryTsdb
    \/ Flatten
    \/ GroupStep
    \/ Score
    \/ Sort
    \/ Return

Spec == Init /\ [][Next]_vars

RECURSIVE GroupsOfTagged(_, _)
\* Lines 165-174: `groups` after the first n pairs of `tagged`
GroupsOfTagged(ts, n) ==
    IF n = 0 THEN <<>> ELSE Placed(GroupsOfTagged(ts, n - 1), ts[n])

\* Lines 157-192: the 'results' aggregate_verify returns for the answers
\* `srcs` of the three adapters
aggregate_results(srcs) ==
    LET ts == Flattened(srcs)
        gs == GroupsOfTagged(ts, Len(ts))
        total_sources == TotalSources([i \in 1..Len(srcs) |-> srcs[i].source])
    IN  SortByKick([g \in 1..Len(gs) |-> ResultOf(gs[g], total_sources)])

\* aggregate_verify(team=team) (lines 135-199) on a first call, when
\* SofaScore answers `payload`, fudbal91 serves `page` and TheSportsDB finds
\* a team id: the 'results' returned
aggregate_verify(team, payload, page) ==
    LET a == [NoArgs EXCEPT !.team = team]
    IN  aggregate_results(
            << fetch_sofascore(a, TRUE, payload, Now, <<>>),
               fetch_fudbal91(a, TRUE, page, Now),
               fetch_tsdb(team, TRUE,
                          [failed |-> FALSE, found |-> TRUE, id |-> <<"1", "3">>],
                          <<>>) >>)

\* aggregate_verify called with a competition key or a date
InitKeyed ==
    /\ pc = "start"
    /\ args \in KeyedArgSets
    /\ sources = <<>>
    /\ used = <<>>
    /\ tagged = <<>>
    /\ idx = 1
    /\ groups = <<>>
    /\ results = <<>>
    /\ out = NoOut
    /\ probe = Idle
    /\ clock = Now
    /\ cache = <<>>
    /\ fetched = <<>>
    /\ fud_cache = <<>>
    /\ NoRace
    /\ NoProcessor

SpecKeyed == InitKeyed /\ [][Next]_vars

\* What an earlier call with the same arguments, a minute ago, left in the
\* two caches
EarlierCache(a) ==
    _cache_set(<<>>, cache_key(SofaCall(a.team, a.hours, a.key, a.date, a.exact,
                                        a.debug, a.nocache)),
               Now - 60, SofaResponse(<<>>, FALSE))
EarlierHtmlCache ==
    QuickOddsUrl :> HtmlEntry(Now - 60, [got |-> TRUE, ok |-> TRUE, rows |-> <<>>])

\* aggregate_verify called with nocache=True, on fresh caches or after an
\* earlier call
InitBypass ==
    /\ pc = "start"
    /\ args \in {[a EXCEPT !.nocache = TRUE] : a \in ArgSets}
    /\ sources = <<>>
    /\ used = <<>>
    /\ tagged = <<>>
    /\ idx = 1
    /\ groups = <<>>
    /\ results = <<>>
    /\ out = NoOut
    /\ probe = Idle
    /\ clock = Now
    /\ cache \in {<<>>, EarlierCache(args)}
    /\ fetched = <<>>
    /\ fud_cache \in {<<>>, EarlierHtmlCache}
    /\ NoRace
    /\ NoProcessor

SpecBypass == InitBypass /\ [][Next]_vars

----------------------------------------------------------------------------
(* Direct calls of _similar_event and _confidence *)

ProbeMatches ==
    { <<"A", " ", "-", " ", "B">>,
      <<"b", "en", "a", " ">>,
      <<"S", "-", "E", " ", "-", " ", "L">>,
      <<"L", " ", "-", " ", "S", "-", "E">>,
      <<"A", " ", "-", " ", "C">>,
      <<"A", "B">> }

ProbeKickoffs ==
    { KNone, KEmpty, KText,
      KAware(T0, 0), KAware(T0 + 1800, 0), KAware(T0 + 1801, 0),
      KAware(T0 + 3600, 3600), KZulu(T0), KNaive(T0) }

ProbeEvents == [league : {<<"P", "L">>}, match : ProbeMatches, kickoff : ProbeKickoffs]

SimilarCalls ==
    [fn : {"_similar_event"}, a : ProbeEvents, b : ProbeEvents,
     returned : {FALSE}, out : {""}]

ConfidenceCalls ==
    [fn : {"_confidence"}, a : 0..MaxVotes, b : 0..MaxVotes,
     returned : {FALSE}, out : {0}]

\* Result records as lines 180-185 build them, with kickoffs of every kind
SortProbeResults ==
    [league : {<<"P", "L">>},
     match : {<<"A", " ", "-", " ", "B">>, <<"A", " ", "-", " ", "C">>},
     kickoff : {KNone, KText, KAware(T0, 0), KAware(T0 + 1800, 0),
                KAware(T0 + 3600, 3600), KNaive(T0 + 1800)},
     evidence : {<<"sofascore">>},
     confidence : {33}]

SortCalls ==
    [fn : {"sort"}, a : SeqsUpTo(SortProbeResults, MaxResults), b : {0},
     returned : {FALSE}, out : {<<>>}]

\* Direct calls of fudbal91.fetch_quick_odds: the hours argument and what
\* the page yields
QuickOddsCalls ==
    [fn : {"fetch_quick_odds"}, a : HoursArgs,
     b : {page \in FudPages(MaxFud) : page.ok},
     returned : {FALSE}, out : {<<>>}]

\* Direct calls of aggregate_verify(team=...): the club S-E asked for by
\* its name and by the short form "SE", and what the providers answer
AggregateCalls ==
    [fn : {"aggregate_verify"},
     a : {<<"s", "-", "e">>, <<"S", "E">>},
     b : [payload : {x \in SofaPayloads(MaxSofa) : x.got /\ x.ok},
          page : {x \in FudPages(MaxFud) : x.got /\ x.ok}],
     returned : {FALSE}, out : {<<>>}]

\* The schedule of the day 2025-09-27: an event that has kicked off, one
\* within the next hour and one four hours ahead
DayEvents ==
    { SofaEvent(<<"A">>, <<"B">>, Now - 3600),
      SofaEvent(<<"A">>, <<"C">>, T0),
      SofaEvent(<<"B">>, <<"C">>, T0 + 4 * 3600) }

\* Direct calls of sofascore.fetch_quick(hours=..., date="2025-09-27",
\* nocache=True), and the events SofaScore lists for that day
DatedCalls ==
    [fn : {"fetch_quick"},
     a : {SofaCall(<<>>, hours, NoKey, "2025-09-27", FALSE, FALSE, TRUE) :
              hours \in HoursArgs},
     b : {[got |-> TRUE, ok |-> TRUE, events |-> es] :
              es \in SeqsUpTo(DayEvents, MaxSofa)},
     returned : {FALSE}, out : {<<>>}]

\* Direct calls of fetch_tsdb(team, ...): what search_team returns for the
\* team and what TheSportsDB lists as its next events
TsdbCalls ==
    [fn : {"fetch_tsdb"}, a : TeamArgs,
     b : [searched : TsdbSearchResults,
          events : SeqsUpTo(TsdbProviderEvents, MaxTsdb)],
     returned : {FALSE}, out : {<<>>}]

InitPure ==
    /\ pc = "direct"
    /\ args = NoArgs
    /\ sources = <<>>
    /\ used = <<>>
    /\ tagged = <<>>
    /\ idx = 1
    /\ groups = <<>>
    /\ results = <<>>
    /\ out = NoOut
    /\ probe \in SimilarCalls \cup ConfidenceCalls \cup SortCalls \cup QuickOddsCalls
                  \cup AggregateCalls \cup DatedCalls \cup TsdbCalls
    /\ clock = Now
    /\ cache = <<>>
    /\ fetched = <<>>
    /\ fud_cache = <<>>
    /\ NoRace
    /\ NoProcessor

\* _similar_event(a, b) is called and returns or raises
CallSimilar ==
    /\ probe.fn = "_similar_event"
    /\ ~probe.returned
    /\ probe' = [probe EXCEPT !.returned = TRUE,
                              !.out = SimilarOutcome(probe.a, probe.b)]
    /\ UNCHANGED <<aggVars, cacheVars, fud_cache, raceVars, tpVars>>

\* _confidence(agree_count, total_sources) is called and returns
CallConfidence ==
    /\ probe.fn = "_confidence"
    /\ ~probe.returned
    /\ probe' = [probe EXCEPT !.returned = TRUE,
                              !.out = _confidence(probe.a, probe.b)]
    /\ UNCHANGED <<aggVars, cacheVars, fud_cache, raceVars, tpVars>>

\* results.sort(key=_kick_ts) (lines 187-192) on a list of result records
CallSort ==
    /\ probe.fn = "sort"
    /\ ~probe.returned
    /\ probe' = [probe EXCEPT !.returned = TRUE, !.out = SortByKick(probe.a)]
    /\ UNCHANGED <<aggVars, cacheVars, fud_cache, raceVars, tpVars>>

\* fudbal91.fetch_quick_odds(hours) is called and returns
CallQuickOdds ==
    /\ probe.fn = "fetch_quick_odds"
    /\ ~probe.returned
    /\ probe' = [probe EXCEPT !.returned = TRUE,
                              !.out = fetch_quick_odds(probe.a, clock, probe.b)]
    /\ UNCHANGED <<aggVars, cacheVars, fud_cache, raceVars, tpVars>>

\* aggregate_verify(team=...) is called and returns
CallAggregate ==
    /\ probe.fn = "aggregate_verify"
    /\ ~probe.returned
    /\ probe' = [probe EXCEPT
                    !.returned = TRUE,
                    !.out = aggregate_verify(probe.a, probe.b.payload, probe.b.page)]
    /\ UNCHANGED <<aggVars, cacheVars, fud_cache, raceVars, tpVars>>

\* sofascore.fetch_quick(hours, date=..., nocache=True) is called and
\* returns its items
CallFetchQuick ==
    /\ probe.fn = "fetch_quick"
    /\ ~probe.returned
    /\ probe' = [probe EXCEPT
                    !.returned = TRUE,
                    !.out = sofascore_fetch_quick(probe.a, clock, cache,
                                                  probe.b).resp.items]
    /\ cache' = sofascore_fetch_quick(probe.a, clock, cache, probe.b).cache
    /\ UNCHANGED <<aggVars, clock, fud_cache, raceVars, tpVars>>

\* fetch_tsdb(team, ...) is called and returns its items
CallFetchTsdb ==
    /\ probe.fn = "fetch_tsdb"
    /\ ~probe.returned
    /\ probe' = [probe EXCEPT
                    !.returned = TRUE,
                    !.out = fetch_tsdb(probe.a, TRUE, probe.b.searched,
                                       probe.b.events).items]
    /\ UNCHANGED <<aggVars, cacheVars, fud_cache, raceVars, tpVars>>

NextPure ==
    \/ CallSimilar
    \/ CallConfidence
    \/ CallSort
    \/ CallQuickOdds
    \/ CallAggregate
    \/ CallFetchQuick
    \/ CallFetchTsdb

SpecPure == InitPure /\ [][NextPure]_vars

----------------------------------------------------------------------------
(* Calls of sofascore.fetch_quick over time, with its cache *)

\* seconds the clock advances by between two calls
TickSeconds == 60

\* Scheduled events that kick off a minute from the first call, and a
\* minute after the end of the one-hour window of the first call
SoonEvents ==
    << SofaEvent(<<"A">>, <<"B">>, Now + 60),
       SofaEvent(<<"A">>, <<"C">>, Now + 3600 + 60) >>

\* What sofascore._get returns for them: None, malformed JSON, or the
\* schedule
SoonPayloads ==
    SofaPayloads(0) \cup {[got |-> TRUE, ok |-> TRUE, events |-> SoonEvents]}

\* What the providers answer to the calls that race on one key
RacePayloads ==
    SofaPayloads(0)
    \cup {[got |-> TRUE, ok |-> TRUE, events |-> SubSeq(SoonEvents, 1, 1)]}
RacePages ==
    { NoPage,
      [got |-> TRUE, ok |-> TRUE, rows |-> <<>>],
      [got |-> TRUE, ok |-> TRUE,
       rows |-> << FudRow(<<"A", " ", "-", " ", "B">>, TRUE, Now + 60) >>] }
\* ... and what it serves between the ticks
SoonPages == {page \in RacePages : page.got => page.rows # <<>>}

\* The calls of fetch_quick: with and without a window and a debug block,
\* and one that bypasses the cache
FetchQuickCalls ==
    { SofaCall(<<>>, hours, NoKey, NoDate, FALSE, debug, FALSE) :
          hours \in HoursArgs, debug \in BOOLEAN }
    \cup { SofaCall(<<>>, NoHours, NoKey, NoDate, FALSE, FALSE, TRUE) }

InitCache ==
    /\ pc = "adapter"
    /\ args = NoArgs
    /\ sources = <<>>
    /\ used = <<>>
    /\ tagged = <<>>
    /\ idx = 1
    /\ groups = <<>>
    /\ results = <<>>
    /\ out = NoOut
    /\ probe = Idle
    /\ clock = Now
    /\ cache = <<>>
    /\ fetched = <<>>
    /\ fud_cache = <<>>
    /\ NoRace
    /\ NoProcessor

\* One call of sofascore.fetch_quick (lines 101-187).  probe keeps the
\* arguments, the clock at the call, the entry _CACHE held under the call's
\* key, and what the call returned.
FetchQuick ==
    /\ pc = "adapter"
    /\ \E call \in FetchQuickCalls, payload \in SoonPayloads :
          LET r == sofascore_fetch_quick(call, clock, cache, payload)
          IN  /\ probe' = [fn |-> "fetch_quick", a |-> call, b |-> clock,
                           returned |-> TRUE,
                           out |-> [raised |-> r.raised, hit |-> r.hit,
                                    resp |-> r.resp,
                                    found |-> EntryOf(cache, cache_key(call))]]
              /\ cache' = r.cache
    /\ UNCHANGED <<aggVars, clock, fud_cache, raceVars, tpVars>>

\* One call of fudbal91.fetch_quick_odds (lines 97-163), _fetch_html and its
\* cache included.  probe keeps the hours, the clock at the call, the entry
\* _CACHE held for the URL, and what _fetch_html and the call returned.
FetchQuickOdds ==
    /\ pc = "adapter"
    /\ \E hours \in HoursArgs, page \in SoonPages :
          LET r == _fetch_html(QuickOddsUrl, TRUE, clock, fud_cache, page)
          IN  /\ probe' = [fn |-> "fetch_quick_odds", a |-> hours, b |-> clock,
                           returned |-> TRUE,
                           out |-> [hit |-> r.hit, html |-> r.html,
                                    items |-> fetch_quick_odds(hours, clock, r.html),
                                    found |-> EntryOf(fud_cache, QuickOddsUrl)]]
              /\ fud_cache' = r.cache
    /\ UNCHANGED <<aggVars, clock, cache, raceVars, tpVars>>

\* Time passes between two calls
Tick ==
    /\ pc = "adapter"
    /\ clock < Now + MaxTicks * TickSeconds
    /\ clock' = clock + TickSeconds
    /\ UNCHANGED <<aggVars, probe, cache, fud_cache, raceVars, tpVars>>

NextCache ==
    \/ FetchQuick
    \/ FetchQuickOdds
    \/ Tick

SpecCache == InitCache /\ [][NextCache]_vars

----------------------------------------------------------------------------
(* Concurrent calls of sofascore.fetch_quick and fudbal91._fetch_html.    *)
(* Threads switch between bytecodes; a call is cut where it reads the     *)
(* cache, where it asks the provider and where it stores its entry.       *)

\* The calls race on one key: fetch_quick(hours=None, debug=...) and
\* _fetch_html of the quick-odds page
RaceCalls == { SofaCall(<<>>, NoHours, NoKey, NoDate, FALSE, debug, FALSE) :
                   debug \in BOOLEAN }

\* A thread about to call sofascore.fetch_quick
SofaThread(call) ==
    [adapter |-> "sofascore", pc |-> "lookup", call |-> call, now |-> 0,
     item |-> <<>>, seen |-> <<>>, local |-> <<>>, hit |-> FALSE, out |-> <<>>]

\* A thread about to call fudbal91._fetch_html
HtmlThread ==
    [adapter |-> "fudbal91", pc |-> "lookup", call |-> <<>>, now |-> 0,
     item |-> <<>>, seen |-> <<>>, local |-> <<>>, hit |-> FALSE, out |-> <<>>]

\* The threads that call the adapters at the same time
ThreadIds == {"t1", "t2"}

RaceThreads == {SofaThread(call) : call \in RaceCalls} \cup {HtmlThread}

LastWrite(name) == IF name \in DOMAIN writes THEN <<writes[name]>> ELSE <<>>

InitRace ==
    /\ pc = "race"
    /\ args = NoArgs
    /\ sources = <<>>
    /\ used = <<>>
    /\ tagged = <<>>
    /\ idx = 1
    /\ groups = <<>>
    /\ results = <<>>
    /\ out = NoOut
    /\ probe = Idle
    /\ clock = Now
    /\ cache = <<>>
    /\ fetched = <<>>
    /\ fud_cache = <<>>
    /\ threads \in [ThreadIds -> RaceThreads]
    /\ writes = <<>>
    /\ NoProcessor

\* sofascore.fetch_quick lines 119-123: _cache_get reads the entry and the
\* clock; a hit returns the cached response
SofaLookup(t) ==
    /\ threads[t].adapter = "sofascore" /\ threads[t].pc = "lookup"
    /\ LET key == cache_key(threads[t].call)
           cached == _cache_get(cache, key, clock)
       IN  threads' = [threads EXCEPT
              ![t].item = EntryOf(cache, key),
              ![t].seen = LastWrite("sofascore"),
              ![t].hit = cached.hit,
              ![t].out = IF cached.hit THEN <<cached.data>> ELSE <<>>,
              ![t].pc = IF cached.hit THEN "done" ELSE "fetch"]
    /\ UNCHANGED <<aggVars, probe, cacheVars, fud_cache, writes, tpVars>>

\* Lines 125-184: the provider is asked and the response is built
SofaBuild(t) ==
    /\ threads[t].adapter = "sofascore" /\ threads[t].pc = "fetch"
    /\ \E payload \in RacePayloads :
          IF payload.got /\ ~payload.ok
          THEN threads' = [threads EXCEPT ![t].pc = "done"]
          ELSE threads' = [threads EXCEPT
                  ![t].local = <<SofaResponse(
                                    SofaItems(threads[t].call, clock,
                                              IF payload.got THEN payload.events
                                              ELSE <<>>),
                                    threads[t].call.debug)>>,
                  ![t].pc = "store"]
    /\ UNCHANGED <<aggVars, probe, cacheVars, fud_cache, writes, tpVars>>

\* Lines 185-187: _cache_set reads the clock and stores the entry
SofaStore(t) ==
    /\ threads[t].adapter = "sofascore" /\ threads[t].pc = "store"
    /\ cache' = _cache_set(cache, cache_key(threads[t].call), clock,
                           threads[t].local[1])
    /\ writes' = ("sofascore" :> [ts |-> clock, data |-> threads[t].local[1]])
                    @@ writes
    /\ threads' = [threads EXCEPT ![t].out = threads[t].local, ![t].pc = "done"]
    /\ UNCHANGED <<aggVars, probe, clock, fud_cache, tpVars>>

\* fudbal91._fetch_html lines 80-83: the clock and the entry are read; a
\* hit returns the cached HTML
HtmlLookup(t) ==
    /\ threads[t].adapter = "fudbal91" /\ threads[t].pc = "lookup"
    /\ LET r == _fetch_html(QuickOddsUrl, TRUE, clock, fud_cache, NoPage)
       IN  threads' = [threads EXCEPT
              ![t].now = clock,
              ![t].item = EntryOf(fud_cache, QuickOddsUrl),
              ![t].seen = LastWrite("fudbal91"),
              ![t].hit = r.hit,
              ![t].out = IF r.hit THEN <<r.html>> ELSE <<>>,
              ![t].pc = IF r.hit THEN "done" ELSE "fetch"]
    /\ UNCHANGED <<aggVars, probe, cacheVars, fud_cache, writes, tpVars>>

\* Lines 84-89 and 93-94: the request; None when it fails
HtmlRequest(t) ==
    /\ threads[t].adapter = "fudbal91" /\ threads[t].pc = "fetch"
    /\ \E page \in RacePages :
          IF ~page.got
          THEN threads' = [threads EXCEPT ![t].pc = "done"]
          ELSE threads' = [threads EXCEPT ![t].local = <<page>>, ![t].pc = "store"]
    /\ UNCHANGED <<aggVars, probe, cacheVars, fud_cache, writes, tpVars>>

\* Lines 91-92: the entry is stored with the time read at line 80
HtmlStore(t) ==
    /\ threads[t].adapter = "fudbal91" /\ threads[t].pc = "store"
    /\ fud_cache' = (QuickOddsUrl :> HtmlEntry(threads[t].now, threads[t].local[1]))
                       @@ fud_cache
    /\ writes' = ("fudbal91" :> [ts |-> threads[t].now,
                                 html |-> threads[t].local[1]]) @@ writes
    /\ threads' = [threads EXCEPT ![t].out = threads[t].local, ![t].pc = "done"]
    /\ UNCHANGED <<aggVars, probe, cacheVars, tpVars>>

\* The thread makes its next call
NextCall(t) ==
    /\ threads[t].pc = "done"
    /\ \E th \in RaceThreads : threads' = [threads EXCEPT ![t] = th]
    /\ UNCHANGED <<aggVars, probe, cacheVars, fud_cache, writes, tpVars>>

\* Time passes while the calls run
RaceTick ==
    /\ pc = "race"
    /\ clock < Now + MaxTicks * TickSeconds
    /\ clock' = clock + TickSeconds
    /\ UNCHANGED <<aggVars, probe, cache, fud_cache, raceVars, tpVars>>

NextRace ==
    \/ \E t \in DOMAIN threads :
          \/ SofaLookup(t)
          \/ SofaBuild(t)
          \/ SofaStore(t)
          \/ HtmlLookup(t)
          \/ HtmlRequest(t)
          \/ HtmlStore(t)
          \/ NextCall(t)
    \/ RaceTick

SpecRace == InitRace /\ [][NextRace]_vars

----------------------------------------------------------------------------
(* task_processor.py: HeavyTaskProcessor *)

\* TaskStatus (lines 12-18)
PENDING == "pending"
RUNNING == "running"
COMPLETED == "completed"
FAILED == "failed"
CANCELLED == "cancelled"
RETRYING == "retrying"

\* The task ids handed to create_task (their order is the order of the
\* strings) and the priorities MEDIUM and HIGH (lines 20-24)
TaskIds == {1, 2}
Priorities == {2, 3}

\* The dictionary create_task builds (lines 97-118); `recovery` is whether a
\* recovery_function was given
NewTask(task_id, priority, recovery) ==
    [id |-> task_id, status |-> PENDING, retry_count |-> 0,
     max_retries |-> max_retries, priority |-> priority, recovery |-> recovery]

\* The queue entry (priority.value * -1, task_id) of lines 123 and 237
QueueEntry(priority, task_id) == <<0 - priority, task_id>>

\* Tuple order of two queue entries
EntryLE(a, b) == a[1] < b[1] \/ (a[1] = b[1] /\ a[2] <= b[2])

\* PriorityQueue.put: the queue is kept in the order get() takes from it
RECURSIVE QueuePut(_, _)
QueuePut(q, entry) ==
    IF q = <<>> THEN <<entry>>
    ELSE IF EntryLE(entry, Head(q)) THEN <<entry>> \o q
         ELSE <<Head(q)>> \o QueuePut(Tail(q), entry)

\* The entry history gets at lines 259-270
HistoryEntry(task) ==
    [task_id |-> task.id, status |-> task.status, retry_count |-> task.retry_count]

\* What recovery_function(task, error_message) does at lines 204-211: it
\* reports a recovery, reports none, or raises
RecoveryOutcomes == {"recovered", "not_recovered", "raised"}

\* The state after __init__ (lines 29-44): no tasks, the workers waiting in
\* task_queue.get
InitTasks ==
    /\ pc = "processor"
    /\ args = NoArgs
    /\ sources = <<>>
    /\ used = <<>>
    /\ tagged = <<>>
    /\ idx = 1
    /\ groups = <<>>
    /\ results = <<>>
    /\ out = NoOut
    /\ probe = Idle
    /\ clock = Now
    /\ cache = <<>>
    /\ fetched = <<>>
    /\ fud_cache = <<>>
    /\ NoRace
    /\ tasks = <<>>
    /\ task_dicts = <<>>
    /\ task_queue = <<>>
    /\ workers = [w \in 1..max_workers |-> [pc |-> "get", task |-> 0]]
    /\ retry_threads = <<>>
    /\ targets = <<>>
    /\ task_history = <<>>
    /\ invoked = <<>>
    /\ cancelled = <<>>

otherVars == <<aggVars, probe, cacheVars, fud_cache, raceVars>>

\* create_task (lines 82-131): a new dictionary is bound to the id,
\* replacing the one an earlier call bound to it, and the id is queued
create_task(task_id, priority, recovery) ==
    /\ pc = "processor"
    /\ Len(task_dicts) < MaxCreates
    /\ task_dicts' = Append(task_dicts, NewTask(task_id, priority, recovery))
    /\ tasks' = (task_id :> Len(task_dicts) + 1) @@ tasks
    /\ task_queue' = QueuePut(task_queue, QueueEntry(priority, task_id))
    /\ retry_threads' = Append(retry_threads, 0)
    /\ targets' = Append(targets, 0)
    /\ invoked' = Append(invoked, 0)
    /\ UNCHANGED <<otherVars, workers, task_history, cancelled>>

\* _worker_loop lines 68-72 with _execute_task lines 135-152 and
\* _run_with_timeout lines 172-183: the worker takes the first entry; if the
\* id is registered it marks the task running, starts the thread that calls
\* the task's function and waits for it in join; if not it goes on
\* (line 74) to the next get
Take(w) ==
    /\ workers[w].pc = "get"
    /\ task_queue # <<>>
    /\ task_queue' = Tail(task_queue)
    /\ LET task_id == Head(task_queue)[2]
       IN  IF task_id \in DOMAIN tasks
           THEN /\ task_dicts' = [task_dicts EXCEPT ![tasks[task_id]].status = RUNNING]
                /\ targets' = [targets EXCEPT ![tasks[task_id]] = @ + 1]
                /\ invoked' = [invoked EXCEPT ![tasks[task_id]] = @ + 1]
                /\ workers' = [workers EXCEPT ![w] = [pc |-> "join",
                                                      task |-> tasks[task_id]]]
           ELSE UNCHANGED <<task_dicts, targets, invoked, workers>>
    /\ UNCHANGED <<otherVars, tasks, retry_threads, task_history, cancelled>>

\* The function returned before the timeout: lines 189-192 and 154-163,
\* then line 74
Finish(w) ==
    /\ workers[w].pc = "join"
    /\ LET t == workers[w].task
           done == [task_dicts[t] EXCEPT !.status = COMPLETED]
       IN  /\ task_dicts' = [task_dicts EXCEPT ![t] = done]
           /\ task_history' = Append(task_history, HistoryEntry(done))
           /\ targets' = [targets EXCEPT ![t] = @ - 1]
    /\ workers' = [workers EXCEPT ![w] = [pc |-> "get", task |-> 0]]
    /\ UNCHANGED <<otherVars, tasks, task_queue, retry_threads, invoked, cancelled>>

\* _handle_task_error if line 214 compared with <= : a failure that raises
\* retry_count to max_retries would still schedule a retry
HandledErrorRetryAtLimit(t, recovery) ==
    LET task == [task_dicts[t] EXCEPT !.retry_count = @ + 1]
    IN  IF task.recovery /\ recovery = "recovered"
        THEN [dicts   |-> [task_dicts EXCEPT ![t] = [task EXCEPT !.status = RUNNING]],
              retries |-> retry_threads,
              history |-> task_history]
        ELSE IF task.retry_count <= task.max_retries
        THEN [dicts   |-> [task_dicts EXCEPT ![t] = [task EXCEPT !.status = RETRYING]],
              retries |-> [retry_threads EXCEPT ![t] = @ + 1],
              history |-> task_history]
        ELSE [dicts   |-> [task_dicts EXCEPT ![t] = [task EXCEPT !.status = FAILED]],
              retries |-> retry_threads,
              history |-> Append(task_history,
                                 HistoryEntry([task EXCEPT !.status = FAILED]))]

\* _handle_task_error (lines 194-221) with _schedule_retry (lines 223-241)
\* on the dictionary t, when the recovery function (if any) does `recovery`:
\* the new dictionaries, retry threads and history
HandledError(t, recovery) ==
    LET task == [task_dicts[t] EXCEPT !.retry_count = @ + 1]
    IN  IF task.recovery /\ recovery = "recovered"
        THEN [dicts   |-> [task_dicts EXCEPT ![t] = [task EXCEPT !.status = RUNNING]],
              retries |-> retry_threads,
              history |-> task_history]
        ELSE IF task.retry_count < task.max_retries
        THEN [dicts   |-> [task_dicts EXCEPT ![t] = [task EXCEPT !.status = RETRYING]],
              retries |-> [retry_threads EXCEPT ![t] = @ + 1],
              history |-> task_history]
        ELSE [dicts   |-> [task_dicts EXCEPT ![t] = [task EXCEPT !.status = FAILED]],
              retries |-> retry_threads,
              history |-> Append(task_history,
                                 HistoryEntry([task EXCEPT !.status = FAILED]))]

\* The function raised before the timeout: lines 189-190 and 167-168, then
\* line 74
Fail(w) ==
    /\ workers[w].pc = "join"
    /\ \E recovery \in RecoveryOutcomes :
          LET h == HandledError(workers[w].task, recovery)
          IN  /\ task_dicts' = h.dicts
              /\ retry_threads' = h.retries
              /\ task_history' = h.history
    /\ targets' = [targets EXCEPT ![workers[w].task] = @ - 1]
    /\ workers' = [workers EXCEPT ![w] = [pc |-> "get", task |-> 0]]
    /\ UNCHANGED <<otherVars, tasks, task_queue, invoked, cancelled>>

\* join(timeout) ended with the function still running: lines 185-187 and
\* 165-166, then line 74.  The thread that runs the function goes on.
Timeout(w) ==
    /\ workers[w].pc = "join"
    /\ \E recovery \in RecoveryOutcomes :
          LET h == HandledError(workers[w].task, recovery)
          IN  /\ task_dicts' = h.dicts
              /\ retry_threads' = h.retries
              /\ task_history' = h.history
    /\ workers' = [workers EXCEPT ![w] = [pc |-> "get", task |-> 0]]
    /\ UNCHANGED <<otherVars, tasks, task_queue, targets, invoked, cancelled>>

\* How many workers wait in join for the function of dictionary t
Joined(t) == Cardinality({w \in DOMAIN workers :
                              workers[w].pc = "join" /\ workers[w].task = t})

\* A function that outlived its timeout returns or raises (lines 175-179)
Outlived(t) ==
    /\ t \in DOMAIN targets
    /\ targets[t] > Joined(t)
    /\ targets' = [targets EXCEPT ![t] = @ - 1]
    /\ UNCHANGED <<otherVars, tasks, task_dicts, task_queue, workers,
                   retry_threads, task_history, invoked, cancelled>>

\* retry_task (lines 233-237) after its sleep
retry_task(t) ==
    /\ t \in DOMAIN retry_threads
    /\ retry_threads[t] > 0
    /\ retry_threads' = [retry_threads EXCEPT ![t] = @ - 1]
    /\ IF task_dicts[t].id \in DOMAIN tasks
       THEN /\ task_dicts' = [task_dicts EXCEPT ![t].status = PENDING]
            /\ task_queue' = QueuePut(task_queue,
                                      QueueEntry(task_dicts[t].priority,
                                                 task_dicts[t].id))
       ELSE UNCHANGED <<task_dicts, task_queue>>
    /\ UNCHANGED <<otherVars, tasks, workers, targets, task_history, invoked,
                   cancelled>>

Terminal == {COMPLETED, FAILED, CANCELLED}

\* cancel_task (lines 299-323) when it returns success
cancel_task(task_id) ==
    /\ task_id \in DOMAIN tasks
    /\ task_dicts[tasks[task_id]].status \notin Terminal
    /\ task_dicts' = [task_dicts EXCEPT ![tasks[task_id]].status = CANCELLED]
    /\ cancelled' = IF task_dicts[tasks[task_id]].status \in {PENDING, RETRYING}
                    THEN (tasks[task_id] :> invoked[tasks[task_id]]) @@ cancelled
                    ELSE cancelled
    /\ UNCHANGED <<otherVars, tasks, task_queue, workers, retry_threads, targets,
                   task_history, invoked>>

\* cleanup_completed_tasks (lines 343-361) with a cutoff that every
\* finished task is older than
cleanup_completed_tasks ==
    /\ \E task_id \in DOMAIN tasks : task_dicts[tasks[task_id]].status \in Terminal
    /\ tasks' = [task_id \in {i \in DOMAIN tasks :
                                 task_dicts[tasks[i]].status \notin Terminal}
                   |-> tasks[task_id]]
    /\ UNCHANGED <<otherVars, task_dicts, task_queue, workers, retry_threads,
                   targets, task_history, invoked, cancelled>>

\* What the threads of the processor and the callers of cancel_task and
\* cleanup_completed_tasks do
RunTasks ==
    \/ \E w \in DOMAIN workers : Take(w)
    \/ \E w \in DOMAIN workers : Finish(w)
    \/ \E w \in DOMAIN workers : Fail(w)
    \/ \E w \in DOMAIN workers : Timeout(w)
    \/ \E t \in DOMAIN task_dicts : Outlived(t)
    \/ \E t \in DOMAIN task_dicts : retry_task(t)
    \/ \E task_id \in TaskIds : cancel_task(task_id)
    \/ cleanup_completed_tasks

NextTasks ==
    \/ \E task_id \in TaskIds, priority \in Priorities, recovery \in BOOLEAN :
          create_task(task_id, priority, recovery)
    \/ RunTasks

SpecTasks == InitTasks /\ [][NextTasks]_vars

\* The ids no call of create_task has used yet
UnusedIds == TaskIds \ {task_dicts[t].id : t \in DOMAIN task_dicts}

\* The processor when every task is created under an id of its own and
\* without a recovery function
NextPlainTasks ==
    \/ \E task_id \in UnusedIds, priority \in Priorities :
          create_task(task_id, priority, FALSE)
    \/ RunTasks

SpecPlainTasks == InitTasks /\ [][NextPlainTasks]_vars

\* The scheduling of the processor's threads: a worker waiting in get
\* takes an entry when the queue has one, a function that was started
\* returns, raises or runs into its timeout, a function that outlived its
\* timeout ends, and a retry thread wakes from its sleep.  Callers of
\* create_task, cancel_task and cleanup_completed_tasks owe nothing.
FairThreads ==
    /\ \A w \in 1..max_workers :
          /\ WF_vars(Take(w))
          /\ WF_vars(Finish(w) \/ Fail(w) \/ Timeout(w))
    /\ \A t \in 1..MaxCreates :
          /\ WF_vars(Outlived(t))
          /\ WF_vars(retry_task(t))

SpecTasksFair == SpecTasks /\ FairThreads

----------------------------------------------------------------------------
(* Properties *)

RECURSIVE SeqSum(_)
SeqSum(s) == IF s = <<>> THEN 0 ELSE Head(s) + SeqSum(Tail(s))

Occurrences(x, s) == Cardinality({i \in DOMAIN s : s[i] = x})

GroupOccurrences(x) ==
    SeqSum([i \in 1..Len(groups) |-> Occurrences(x, groups[i])])

Grouping == pc \in {"group", "sort", "return", "done"}
Grouped == pc \in {"sort", "return", "done"}

\* The events of `tagged` the grouping loop has placed so far
PlacedSoFar == SubSeq(tagged, 1, idx - 1)

\* The similarity predicate as the specification words it: the same
\* unordered pair of normalised team tokens (equal normalised texts when
\* either text does not split into exactly two parts) and, when both
\* kickoffs parse, instants at most 1800 seconds apart.
Unparseable(k) == k.kind \in {"None", "empty", "text"}

TeamMatch(a, b) ==
    LET pa == MatchParts(a.match)
        pb == MatchParts(b.match)
    IN  IF Len(pa) = 2 /\ Len(pb) = 2
        THEN {pa[1], pa[2]} = {pb[1], pb[2]}
        ELSE lower(strip(a.match)) = lower(strip(b.match))

KickoffInstant(k) == k.local - k.off

SameFixture(a, b) ==
    /\ TeamMatch(a, b)
    /\ (~Unparseable(a.kickoff) /\ ~Unparseable(b.kickoff)) =>
           Abs(KickoffInstant(a.kickoff) - KickoffInstant(b.kickoff)) <= 1800

\* C1: every event the adapters returned is in exactly one group (each
\* tagged pair placed so far occurs in the groups as often as in the
\* flattened list), and in the returned dictionary the evidence lengths of
\* all results add up to the per-source counts.
C1_Partition ==
    /\ Grouping =>
          \A x \in Range(tagged) :
              GroupOccurrences(x) = Occurrences(x, PlacedSoFar)
    /\ pc = "done" =>
          SeqSum([i \in 1..Len(out.results) |-> Len(out.results[i].evidence)])
            = out.counts["sofascore"] + out.counts["fudbal91"] + out.counts["tsdb"]

C1_Witness ==
    /\ pc = "done"
    /\ Len(out.results) >= 2
    /\ \E i \in 1..Len(out.results) : Len(out.results[i].evidence) >= 2
    /\ out.counts["sofascore"] > 0
    /\ out.counts["fudbal91"] > 0

\* Two match texts that split into two team tokens each and name them in
\* swapped order
SwappedTeams(a, b) ==
    LET pa == MatchParts(a.match)
        pb == MatchParts(b.match)
    IN  Len(pa) = 2 /\ Len(pb) = 2 /\ pa[1] = pb[2] /\ pa[2] = pb[1]

WithinThirtyMinutes(a, b) ==
    /\ ~Unparseable(a.kickoff)
    /\ ~Unparseable(b.kickoff)
    /\ Abs(KickoffInstant(a.kickoff) - KickoffInstant(b.kickoff)) <= 1800

InSameGroup(x, y) ==
    \E g \in 1..Len(groups) : x \in Range(groups[g]) /\ y \in Range(groups[g])

\* Every representative that is the same fixture as one of the two events
\* is the same fixture as the other
SameRepresentatives(a, b) ==
    \A g \in 1..Len(groups) :
        SameFixture(groups[g][1].ev, a) <=> SameFixture(groups[g][1].ev, b)

\* C2 as stated: whatever else the adapters return, two events naming the
\* same two teams in swapped order with kickoffs at most 30 minutes apart
\* are in the same group.
C2_AsStated ==
    Grouped =>
        \A i, j \in 1..Len(tagged) :
            (SwappedTeams(tagged[i].ev, tagged[j].ev)
               /\ WithinThirtyMinutes(tagged[i].ev, tagged[j].ev))
            => InSameGroup(tagged[i], tagged[j])

\* C2, amended: two placed events whose match texts split into two team
\* tokens each, swapped, with kickoffs at most 30 minutes apart, are in the
\* same group whenever every group representative that is similar to one of
\* them is similar to the other.
C2_SwappedTeamsShareGroup ==
    Grouping =>
        \A j \in 1..(idx - 1) : \A i \in 1..(j - 1) :
            (WithinThirtyMinutes(tagged[i].ev, tagged[j].ev)
               /\ SwappedTeams(tagged[i].ev, tagged[j].ev)
               /\ SameRepresentatives(tagged[i].ev, tagged[j].ev))
            => InSameGroup(tagged[i], tagged[j])

C2_Witness ==
    /\ pc = "done"
    /\ Len(groups) >= 2
    /\ \E i, j \in 1..Len(tagged) :
          /\ tagged[i].src # tagged[j].src
          /\ SwappedTeams(tagged[i].ev, tagged[j].ev)
          /\ WithinThirtyMinutes(tagged[i].ev, tagged[j].ev)
          /\ SameRepresentatives(tagged[i].ev, tagged[j].ev)
          /\ InSameGroup(tagged[i], tagged[j])

\* C3: every member of a group after the first is the same fixture as the
\* group's first member: same unordered pair of normalised team tokens (or
\* equal normalised texts when a text does not split in two) and, both
\* kickoffs parsing, at most 1800 seconds apart.
C3_MembersSimilarToRepresentative ==
    Grouping =>
        \A g \in 1..Len(groups) :
            \A k \in 2..Len(groups[g]) :
                SameFixture(groups[g][k].ev, groups[g][1].ev)

C3_Witness ==
    /\ pc = "done"
    /\ \E g \in 1..Len(groups) :
          /\ Len(groups[g]) >= 2
          /\ groups[g][2].ev.match # groups[g][1].ev.match
          /\ Abs(KickoffInstant(groups[g][2].ev.kickoff)
                   - KickoffInstant(groups[g][1].ev.kickoff)) = 1800
          /\ \E h \in 1..Len(groups) :
                h # g /\ TeamMatch(groups[h][1].ev, groups[g][1].ev)

\* C4: when the team comparison of two events succeeds and at least one of
\* the two kickoffs is missing or does not parse, _similar_event returns
\* True, whatever the other kickoff is.
C4_MissingKickoffNeverBlocks ==
    (/\ probe.fn = "_similar_event"
     /\ probe.returned
     /\ TeamMatch(probe.a, probe.b)
     /\ Unparseable(probe.a.kickoff) \/ Unparseable(probe.b.kickoff))
    => probe.out = "True"

C4_Witness ==
    /\ probe.fn = "_similar_event"
    /\ probe.returned
    /\ probe.a.match # probe.b.match
    /\ TeamMatch(probe.a, probe.b)
    /\ probe.a.kickoff = KNone
    /\ probe.b.kickoff = KAware(T0 + 1801, 0)
    /\ probe.out = "True"

\* c hundredths is d / t rounded to two decimals and kept within [0, 1]:
\* it lies within half a hundredth of the quotient
IsRoundedShare(c, d, t) ==
    /\ c \in 0..100
    /\ 2 * Abs(100 * d - t * c) <= t

DistinctSources(g) == Cardinality({g[k].src : k \in 1..Len(g)})

\* The result record r reports the group g
ReportsGroup(r, g) ==
    /\ r.league = g[1].ev.league
    /\ r.match = g[1].ev.match
    /\ r.kickoff = g[1].ev.kickoff
    /\ r.evidence = [k \in 1..Len(g) |-> g[k].src]

\* C5: each result's confidence is the number of distinct source tags of
\* its group divided by the number of sources queried, rounded to two
\* decimals; members of one source count once, and a group reported by two
\* of the three sources has confidence 0.67.
C5_ConfidenceIsShareOfSources ==
    Grouped =>
        /\ Len(results) = Len(groups)
        /\ \A i \in 1..Len(results) :
              \E g \in 1..Len(groups) :
                  /\ ReportsGroup(results[i], groups[g])
                  /\ IsRoundedShare(results[i].confidence,
                                    DistinctSources(groups[g]), Len(sources))
                  /\ DistinctSources(groups[g]) = 2 => results[i].confidence = 67
        /\ pc = "done" => out.results = results

C5_Witness ==
    /\ pc = "done"
    /\ \E i \in 1..Len(out.results) :
          /\ Len(out.results[i].evidence) = 3
          /\ Cardinality(Range(out.results[i].evidence)) = 2
          /\ out.results[i].confidence = 67

\* C6: for a fixed total_sources the confidence does not decrease when the
\* number of agreeing sources grows, and with three sources it is 0.33,
\* 0.67 and 1.0 for one, two and three of them.
C6_ConfidenceMonotone ==
    (probe.fn = "_confidence" /\ probe.returned) =>
        /\ \A fewer \in 0..probe.a : _confidence(fewer, probe.b) <= probe.out
        /\ (probe.b = 3 /\ probe.a = 1) => probe.out = 33
        /\ (probe.b = 3 /\ probe.a = 2) => probe.out = 67
        /\ (probe.b = 3 /\ probe.a = 3) => probe.out = 100

C6_Witness ==
    /\ probe.fn = "_confidence"
    /\ probe.returned
    /\ probe.a = 3
    /\ probe.b = 3
    /\ probe.out = 100

\* C7: the denominator of the confidence is the three adapters invoked,
\* whatever they answered: a group with a single distinct source has
\* confidence 0.33 also when other adapters returned nothing, raised or
\* were unavailable.
C7_DenominatorCountsEveryAdapter ==
    Grouped =>
        /\ Len(sources) = 3
        /\ \A i \in 1..Len(results) :
              Cardinality(Range(results[i].evidence)) = 1
                  => results[i].confidence = 33

C7_Witness ==
    /\ pc = "done"
    /\ sources[1].error = "exception"
    /\ sources[3].error = "module_unavailable"
    /\ Len(sources[2].items) = 1
    /\ Len(out.results) = 1
    /\ out.results[1].evidence = <<"fudbal91">>
    /\ out.results[1].confidence = 33

\* C8: the evidence list of a returned result holds no source tag twice.
C8_EvidenceTagsDistinct ==
    pc = "done" =>
        \A i \in 1..Len(out.results) :
            \A j, k \in 1..Len(out.results[i].evidence) :
                j # k => out.results[i].evidence[j] # out.results[i].evidence[k]

TagAll(items, name) == [k \in 1..Len(items) |-> [ev |-> items[k], src |-> name]]

ItemsFrom(name) ==
    LET S == {i \in 1..Len(sources) : sources[i].source = name}
    IN  IF S = {} THEN <<>> ELSE sources[CHOOSE i \in S : TRUE].items

\* The adapters in the order they are queried and flattened
AdapterOrder == [i \in 1..Len(sources) |-> sources[i].source]

PositionIn(order, name) == CHOOSE i \in 1..Len(order) : order[i] = name

\* The flattened list concatenates the adapters' item lists in `order`, and
\* no member of a group comes from a source earlier in `order` than the
\* group's first member
FlattenedInOrder(order) ==
    /\ AdapterOrder = order
    /\ tagged = TagAll(ItemsFrom(order[1]), order[1])
                  \o TagAll(ItemsFrom(order[2]), order[2])
                  \o TagAll(ItemsFrom(order[3]), order[3])
    /\ \A g \in 1..Len(groups) :
          \A k \in 1..Len(groups[g]) :
              PositionIn(order, groups[g][1].src) <= PositionIn(order, groups[g][k].src)

\* C9 as stated: the adapters are concatenated tsdb first, sofascore
\* second, fudbal91 third, each in its own item order, and a group's
\* representative comes from the earliest source in that order.
C9_AsStated == Grouping => FlattenedInOrder(<<"tsdb", "sofascore", "fudbal91">>)

\* C9, amended: the order is sofascore first, fudbal91 second, tsdb third.
C9_SofascoreFudbal91Tsdb ==
    Grouping => FlattenedInOrder(<<"sofascore", "fudbal91", "tsdb">>)

C9_Witness ==
    /\ pc = "done"
    /\ Len(sources[1].items) = 2
    /\ Len(sources[2].items) = 2
    /\ \E g \in 1..Len(groups) :
          /\ Len(groups[g]) >= 2
          /\ groups[g][1].src = "sofascore"
          /\ groups[g][2].src = "fudbal91"

\* The groups whose first member is the same fixture as the event ev
SimilarRepresentatives(ev) ==
    {g \in 1..Len(groups) : SameFixture(ev, groups[g][1].ev)}

\* One iteration of the grouping loop: the event joins the earliest-created
\* group whose first member is similar, or opens a new last group when no
\* first member is similar; every other group is left as it was
GreedyStep ==
    LET t == tagged[idx]
        S == SimilarRepresentatives(t.ev)
    IN  IF S = {}
        THEN groups' = Append(groups, <<t>>)
        ELSE LET first == CHOOSE g \in S : \A h \in S : g <= h
             IN  /\ Len(groups') = Len(groups)
                 /\ groups'[first] = Append(groups[first], t)
                 /\ \A g \in 1..Len(groups) : g # first => groups'[g] = groups[g]

\* C10: grouping is greedy first-match-wins.  Each step of the loop places
\* the next event as GreedyStep says; outside the loop the groups do not
\* change (placed members are never moved, groups never merged); and every
\* result carries the league, match and kickoff of its group's first member.
C10_GreedyFirstMatchWins ==
    /\ [][(pc = "group" /\ idx' = idx + 1) => GreedyStep]_vars
    /\ [][(Grouping /\ idx' = idx) => groups' = groups]_vars
    /\ [](pc = "sort" =>
            /\ Len(results) = Len(groups)
            /\ \A g \in 1..Len(groups) : ReportsGroup(results[g], groups[g]))
    /\ [](pc = "done" =>
            \A i \in 1..Len(out.results) :
                \E g \in 1..Len(groups) : ReportsGroup(out.results[i], groups[g]))

C10_Witness ==
    /\ pc = "done"
    /\ Len(groups) = 2
    /\ Len(groups[1]) = 2
    /\ groups[1][1].ev.league # groups[1][2].ev.league
    /\ SameFixture(groups[1][2].ev, groups[1][1].ev)
    /\ SameFixture(groups[1][2].ev, groups[2][1].ev)

\* C11: the results of a run are deduplicated.  No two group
\* representatives, and no two records of the returned 'results', are the
\* same fixture (same teams and, both kickoffs parsing, at most 1800
\* seconds apart).
C11_ResultsPairwiseNotSimilar ==
    /\ Grouping =>
          \A g, h \in 1..Len(groups) :
              g # h => ~SameFixture(groups[g][1].ev, groups[h][1].ev)
    /\ pc = "done" =>
          \A i, j \in 1..Len(out.results) :
              i # j => ~SameFixture(out.results[i], out.results[j])

C11_Witness ==
    /\ pc = "done"
    /\ \E i, j \in 1..Len(out.results) :
          /\ i # j
          /\ TeamMatch(out.results[i], out.results[j])
          /\ Len(out.results[i].evidence) >= 2
    /\ Len(tagged) > Len(out.results)

\* The injective maps of 1..n into itself
Reorderings(n) ==
    {p \in [1..n -> 1..n] : \A i, j \in 1..n : i # j => p[i] # p[j]}

\* C12: the sorted list holds the records of the unsorted one, ascending by
\* the instant of their kickoff; a record whose kickoff is missing or does
\* not parse comes after every record whose kickoff parses; and records with
\* the same key (the same instant, or both without one) keep the order they
\* had before the sort, which is the order their groups were created in.
C12_SortedByKickoffStable ==
    (probe.fn = "sort" /\ probe.returned) =>
        LET before == probe.a
            after == probe.out
            n == Len(before)
        IN  /\ Len(after) = n
            /\ \E p \in Reorderings(n) :
                  /\ \A i \in 1..n : after[i] = before[p[i]]
                  /\ \A i, j \in 1..n :
                        i < j =>
                          LET x == after[i].kickoff
                              y == after[j].kickoff
                          IN  /\ Unparseable(x) => Unparseable(y)
                              /\ (~Unparseable(x) /\ ~Unparseable(y)) =>
                                    KickoffInstant(x) <= KickoffInstant(y)
                              /\ (Unparseable(x) /\ Unparseable(y)) => p[i] < p[j]
                              /\ (~Unparseable(x) /\ ~Unparseable(y)
                                    /\ KickoffInstant(x) = KickoffInstant(y))
                                 => p[i] < p[j]

C12_Witness ==
    /\ probe.fn = "sort"
    /\ probe.returned
    /\ Len(probe.a) = 3
    /\ Unparseable(probe.a[1].kickoff)
    /\ probe.a[2].kickoff = KAware(T0 + 3600, 3600)
    /\ probe.a[3].kickoff = KAware(T0, 0)
    /\ probe.a[2].match # probe.a[3].match
    /\ probe.out = <<probe.a[2], probe.a[3], probe.a[1]>>

\* What identical adapter outputs determine.  The item lists of the three
\* adapters, each item tagged with its source, in the order the adapters are
\* asked
TaggedItems ==
    TagAll(ItemsFrom("sofascore"), "sofascore")
      \o TagAll(ItemsFrom("fudbal91"), "fudbal91")
      \o TagAll(ItemsFrom("tsdb"), "tsdb")

RECURSIVE GroupsOfFirst(_, _)
\* The first n of the tagged items ts, grouped: an item joins the first
\* group whose first member is the same fixture, or opens a new group
GroupsOfFirst(ts, n) ==
    IF n = 0 THEN <<>>
    ELSE LET gs == GroupsOfFirst(ts, n - 1)
             S == {g \in 1..Len(gs) : SameFixture(ts[n].ev, gs[g][1].ev)}
         IN  IF S = {} THEN Append(gs, <<ts[n]>>)
             ELSE [gs EXCEPT ![CHOOSE g \in S : \A h \in S : g <= h] = Append(@, ts[n])]

\* The record a group is reported with when three sources are asked
RecordOfGroup(g) ==
    [league     |-> g[1].ev.league,
     match      |-> g[1].ev.match,
     kickoff    |-> g[1].ev.kickoff,
     evidence   |-> [k \in 1..Len(g) |-> g[k].src],
     confidence |-> CHOOSE c \in 0..100 : IsRoundedShare(c, DistinctSources(g), 3)]

\* The kickoff of a is strictly later than that of b (no kickoff is later
\* than any kickoff)
KicksOffLater(a, b) ==
    \/ Unparseable(a.kickoff) /\ ~Unparseable(b.kickoff)
    \/ /\ ~Unparseable(a.kickoff)
       /\ ~Unparseable(b.kickoff)
       /\ KickoffInstant(a.kickoff) > KickoffInstant(b.kickoff)

RECURSIVE InKickoffOrder(_, _)
\* The first n of the records rs by kickoff, equal kickoffs in list order
InKickoffOrder(rs, n) ==
    IF n = 0 THEN <<>>
    ELSE LET sorted == InKickoffOrder(rs, n - 1)
             k == Cardinality({i \in 1..Len(sorted) : ~KicksOffLater(sorted[i], rs[n])})
         IN  SubSeq(sorted, 1, k) \o <<rs[n]>> \o SubSeq(sorted, k + 1, Len(sorted))

ResultsOfItems(ts) ==
    LET gs == GroupsOfFirst(ts, Len(ts))
        rs == [g \in 1..Len(gs) |-> RecordOfGroup(gs[g])]
    IN  InKickoffOrder(rs, Len(rs))

\* C13: the returned 'results' are a function of the item lists the three
\* adapters returned and of nothing else (not the arguments, the clock, the
\* cache, or how an adapter came to return its list), so two runs with
\* identical item lists return identical records, in the same order, with
\* the same evidence and confidence.
C13_ResultsDeterminedByItems ==
    pc = "done" => out.results = ResultsOfItems(TaggedItems)

C13_Witness ==
    /\ pc = "done"
    /\ args.hours.given
    /\ sources[3].error = "module_unavailable"
    /\ Len(out.results) >= 2
    /\ \E i \in 1..Len(out.results) : out.results[i].confidence = 67
    /\ out.results[1].kickoff # out.results[2].kickoff

\* C14: partial-failure resilience.  The run never raises, and when it has
\* returned, every adapter whose provider request failed or was answered
\* with malformed data is reported with count 0 and with an error note in
\* 'sources', the results being those of the other adapters' items.
C14_FailedSourceHasErrorNote ==
    /\ pc # "raised"
    /\ pc = "done" =>
          /\ out.results = ResultsOfItems(TaggedItems)
          /\ \A i \in 1..3 :
                fetched[i] \in {"failed", "malformed"} =>
                    /\ sources[i].items = <<>>
                    /\ out.counts[used[i]] = 0
                    /\ out.sources[used[i]].count = 0
                    /\ out.sources[used[i]].error # NoError

\* C15: total failure.  When the provider requests of all three adapters
\* failed, the run returns with empty 'results', 'used' naming the three
\* sources, every count 0 and an error note for each source in 'sources'.
C15_TotalFailureHasErrorNotes ==
    (pc = "done" /\ \A i \in 1..3 : fetched[i] = "failed") =>
        /\ out.results = <<>>
        /\ out.used = <<"sofascore", "fudbal91", "tsdb">>
        /\ \A n \in SourceNames :
              /\ out.counts[n] = 0
              /\ out.sources[n].count = 0
              /\ out.sources[n].error # NoError

\* C16: time-window exclusion.  Every event a call of fetch_quick with an
\* integer hours value returns, live or from the cache, kicks off inside
\* [now, now + hours] at the time of that call.
C16_ReturnedEventsInsideWindow ==
    (probe.fn = "fetch_quick" /\ ~probe.out.raised /\ probe.a.hours.given) =>
        \A i \in 1..Len(probe.out.resp.items) :
            LET k == probe.out.resp.items[i].kickoff
            IN  ~Unparseable(k) =>
                    /\ probe.b <= KickoffInstant(k)
                    /\ KickoffInstant(k) <= probe.b + probe.a.hours.h * 3600

\* C17: every row of the fudbal91 page whose kickoff is absent or does not
\* parse yields an item of fetch_quick_odds, whatever the hours value.
C17_UnparsedKickoffStillReturned ==
    (probe.fn = "fetch_quick_odds" /\ probe.returned /\ probe.b.got) =>
        \A i \in 1..Len(probe.b.rows) :
            ~probe.b.rows[i].kickoff.ok =>
                \E k \in 1..Len(probe.out) :
                    /\ probe.out[k].match = probe.b.rows[i].teams
                    /\ Unparseable(probe.out[k].kickoff)

\* The competition keys a caller may pass
FixedKeys ==
    { <<"u", "c", "l">>, <<"e", "p", "l">>, <<"l", "a", "l", "i", "g", "a">>,
      <<"b", "u", "n", "d", "e", "s", "l", "i", "g", "a">>,
      <<"s", "e", "r", "i", "e", "a">>, <<"l", "i", "g", "u", "e", "1">>,
      <<"s", "e", "r", "b", "i", "a">> }

\* A date a caller may pass: none, or a YYYY-MM-DD day
WellFormedDate(d) == d \in {"", "2025-09-27"}

\* C18: a call with a competition key outside the fixed set, or with a
\* malformed date, never returns normally: aggregate_verify reaches its
\* return statement only with a key of the fixed set (or none) and a
\* well-formed date (or none).
C18_InvalidInputRejected ==
    pc \in {"return", "done"} =>
        /\ args.key = <<>> \/ args.key \in FixedKeys
        /\ WellFormedDate(args.date)

\* An entry of the alias table: the short form "se" and the canonical
\* name "s-e" it stands for
AliasEntry == [alias |-> <<"s", "e">>, canonical |-> <<"s", "-", "e">>]

\* C19: alias resolution.  A call with the alias as team returns the
\* results the call with the canonical name returns for the same provider
\* data.
C19_AliasSameAsCanonical ==
    (/\ probe.fn = "aggregate_verify"
     /\ probe.returned
     /\ lower(strip(probe.a)) = AliasEntry.alias)
    => probe.out = aggregate_verify(AliasEntry.canonical, probe.b.payload, probe.b.page)

\* The top-level keys of a fetch_quick response
TopLevelKeys(resp) ==
    {"source", "items"} \cup (IF resp.debug.present THEN {"debug"} ELSE {})

\* C20: a response of fetch_quick, live or from the cache, has the 'debug'
\* block exactly when the call was made with debug=True, so its top-level
\* keys are those a live fetch with the same arguments returns.
C20_CachedShapeAsLive ==
    (probe.fn = "fetch_quick" /\ ~probe.out.raised) =>
        /\ probe.out.resp.debug.present = probe.a.debug
        /\ TopLevelKeys(probe.out.resp)
             = {"source", "items"} \cup (IF probe.a.debug THEN {"debug"} ELSE {})

----------------------------------------------------------------------------
\* The key the concurrent calls of fetch_quick race on
RaceKey == cache_key(SofaCall(<<>>, NoHours, NoKey, NoDate, FALSE, FALSE, FALSE))

\* A response that was built to its end: its debug block, if it has one,
\* counts the items
BuiltWhole(resp) ==
    /\ resp.source = "sofascore"
    /\ resp.debug.present => resp.debug.count = Len(resp.items)

\* C21: while calls of the adapters race on one cache key, each cache
\* entry is the timestamp and the whole payload stored by one call, the
\* last one to store; the entry a call reads is such a pair too, and what a
\* hit returns is that entry's payload.
C21_CacheEntryFromOneCall ==
    pc = "race" =>
        /\ DOMAIN cache \subseteq {RaceKey}
        /\ DOMAIN fud_cache \subseteq {QuickOddsUrl}
        /\ EntryOf(cache, RaceKey) = LastWrite("sofascore")
        /\ EntryOf(fud_cache, QuickOddsUrl) = LastWrite("fudbal91")
        /\ \A k \in DOMAIN cache : BuiltWhole(cache[k].data)
        /\ \A t \in DOMAIN threads :
              /\ threads[t].item = threads[t].seen
              /\ threads[t].hit =>
                    /\ threads[t].item # <<>>
                    /\ threads[t].out =
                          << IF threads[t].adapter = "sofascore"
                             THEN threads[t].item[1].data
                             ELSE threads[t].item[1].html >>

\* Two calls fetched the same key redundantly: one stored its response and
\* the other has since replaced it with a different one, which a third
\* call reads at a later time
C21_Witness ==
    /\ pc = "race"
    /\ \E t, u \in DOMAIN threads :
          /\ t # u
          /\ threads[t].adapter = "sofascore" /\ threads[t].pc = "done"
          /\ ~threads[t].hit /\ threads[t].out # <<>>
          /\ cache[RaceKey].data # threads[t].out[1]
          /\ cache[RaceKey].ts > Now
          /\ threads[u].adapter = "sofascore" /\ threads[u].hit
          /\ threads[u].out = <<cache[RaceKey].data>>

----------------------------------------------------------------------------
\* Age, at the time of the last adapter call, of the entry the call found
FoundAge == probe.b - probe.out.found[1].ts

\* C22: a call is answered from the cache only if the entry it found is at
\* most 120 seconds old, and then with that entry's payload; a call that
\* reads the cache and finds an older entry fetches live and, unless the
\* fetch fails, leaves an entry with the time of the call and the payload it
\* returns; a fudbal91 fetch that fails leaves the cache as it found it.
C22_CacheExpiryOnRead ==
    /\ probe.fn = "fetch_quick" =>
          /\ probe.out.hit =>
                /\ ~probe.a.nocache
                /\ probe.out.found # <<>>
                /\ FoundAge <= 120
                /\ probe.out.resp = probe.out.found[1].data
          /\ (~probe.a.nocache /\ probe.out.found # <<>> /\ FoundAge > 120) =>
                /\ ~probe.out.hit
                /\ ~probe.out.raised =>
                      EntryOf(cache, cache_key(probe.a))
                        = <<[ts |-> probe.b, data |-> probe.out.resp]>>
    /\ probe.fn = "fetch_quick_odds" =>
          /\ probe.out.hit =>
                /\ probe.out.found # <<>>
                /\ FoundAge <= 120
                /\ probe.out.html = probe.out.found[1].html
          /\ (probe.out.found # <<>> /\ FoundAge > 120) =>
                /\ ~probe.out.hit
                /\ probe.out.html.got =>
                      EntryOf(fud_cache, QuickOddsUrl)
                        = <<[ts |-> probe.b, html |-> probe.out.html]>>
          /\ (~probe.out.hit /\ ~probe.out.html.got) =>
                EntryOf(fud_cache, QuickOddsUrl) = probe.out.found

\* A call of fetch_quick found an entry 180 seconds old and replaced it
\* with the response it fetched, while fudbal91's entry, as old, survived a
\* failed fetch
C22_Witness ==
    /\ probe.fn = "fetch_quick"
    /\ ~probe.a.nocache
    /\ probe.out.found # <<>>
    /\ FoundAge > 120
    /\ ~probe.out.hit
    /\ cache[cache_key(probe.a)].ts = probe.b
    /\ cache[cache_key(probe.a)].data # probe.out.found[1].data
    /\ QuickOddsUrl \in DOMAIN fud_cache
    /\ fud_cache[QuickOddsUrl].ts = Now

----------------------------------------------------------------------------
\* C23: during aggregate_verify(nocache=True) no adapter answers from a
\* cache and no cache entry is created or replaced.
C23_NocacheBypassesEveryCache ==
    [][args.nocache =>
          /\ cache' = cache
          /\ fud_cache' = fud_cache
          /\ \A i \in DOMAIN fetched' : fetched'[i] # "cached"]_vars

----------------------------------------------------------------------------
\* C24: fetch_quick called with a date returns an item for every event
\* SofaScore lists for that day (no competition or team filter is asked
\* for), whatever its start time and the hours argument.
C24_DateIgnoresHoursWindow ==
    (probe.fn = "fetch_quick" /\ probe.returned /\ probe.a.date # NoDate) =>
        \A i \in DOMAIN probe.b.events :
            \E j \in DOMAIN probe.out :
                /\ probe.out[j].match
                     = probe.b.events[i].home \o <<" ", "-", " ">>
                         \o probe.b.events[i].away
                /\ probe.out[j].kickoff
                     = IsoformatUtc(probe.b.events[i].startTimestamp)

----------------------------------------------------------------------------
\* C25: when search_team resolves the team to an id and TheSportsDB lists
\* next events for it, fetch_tsdb returns one item for each event that
\* events_next_team returns.
C25_TsdbItemPerEvent ==
    (/\ probe.fn = "fetch_tsdb" /\ probe.returned
     /\ probe.a # <<>>
     /\ probe.b.searched.found /\ probe.b.searched.id # <<>>
     /\ probe.b.events # <<>>) =>
        Len(probe.out) = Len(probe.b.events)

----------------------------------------------------------------------------
\* The keys of an event dictionary as the sofascore adapter builds it
EventKeys == {"league", "match", "kickoff"}

----------------------------------------------------------------------------
\* C27: once cancel_task has returned success for a task that was PENDING
\* or RETRYING, the task stays CANCELLED and its function is not invoked
\* again (`cancelled` holds the number of invocations at the cancellation).
C27_CancellationIsFinal ==
    \A t \in DOMAIN cancelled :
        /\ task_dicts[t].status = CANCELLED
        /\ invoked[t] = cancelled[t]

----------------------------------------------------------------------------
\* The task of dictionary t was created without a recovery function and no
\* other call of create_task used its id
Plain(t) ==
    /\ ~task_dicts[t].recovery
    /\ \A u \in DOMAIN task_dicts \ {t} : task_dicts[u].id # task_dicts[t].id

\* How many entries of task_history record the task of dictionary t as failed
FailedEntries(t) ==
    Cardinality({i \in DOMAIN task_history :
                    /\ task_history[i].task_id = task_dicts[t].id
                    /\ task_history[i].status = FAILED})

\* How many entries of the queue q name the id
Queued(q, id) == Cardinality({i \in DOMAIN q : q[i][2] = id})

\* retry_count and the number of invocations stay within max_retries, and
\* the task is FAILED, with one history entry, exactly when retry_count
\* has reached max_retries
RetryCountBounded ==
    \A t \in DOMAIN task_dicts :
        Plain(t) =>
            /\ task_dicts[t].retry_count <= task_dicts[t].max_retries
            /\ invoked[t] <= task_dicts[t].max_retries
            /\ (task_dicts[t].status = FAILED)
                  <=> (task_dicts[t].retry_count = task_dicts[t].max_retries)
            /\ FailedEntries(t) = IF task_dicts[t].status = FAILED THEN 1 ELSE 0

\* A step that changes retry_count is a failure: it adds one, and it makes
\* the task FAILED when the count reaches max_retries and RETRYING with one
\* more retry timer otherwise; no other step makes a task FAILED
FailureStep ==
    \A t \in DOMAIN task_dicts :
        Plain(t) =>
            /\ (task_dicts'[t].retry_count # task_dicts[t].retry_count) =>
                  /\ task_dicts'[t].retry_count = task_dicts[t].retry_count + 1
                  /\ IF task_dicts'[t].retry_count < task_dicts[t].max_retries
                     THEN /\ task_dicts'[t].status = RETRYING
                          /\ retry_threads'[t] = retry_threads[t] + 1
                          /\ task_queue' = task_queue
                     ELSE /\ task_dicts'[t].status = FAILED
                          /\ retry_threads'[t] = retry_threads[t]
            /\ (task_dicts'[t].status = FAILED /\ task_dicts[t].status # FAILED) =>
                  task_dicts'[t].retry_count # task_dicts[t].retry_count

\* The end of a retry delay, as line 235 has it: the task becomes PENDING
\* and its id is queued once if the id is still registered, and nothing
\* happens to it otherwise
RetryStep ==
    \A t \in DOMAIN task_dicts :
        (Plain(t) /\ retry_threads'[t] < retry_threads[t]) =>
            IF task_dicts[t].id \in DOMAIN tasks
            THEN /\ task_dicts'[t].status = PENDING
                 /\ Queued(task_queue', task_dicts[t].id)
                      = Queued(task_queue, task_dicts[t].id) + 1
            ELSE /\ task_dicts'[t] = task_dicts[t]
                 /\ task_queue' = task_queue

----------------------------------------------------------------------------
\* C29: under fair scheduling of the workers and the retry timers every
\* task that create_task made reaches COMPLETED, FAILED or CANCELLED.
C29_EveryTaskTerminates ==
    \A t \in 1..MaxCreates :
        (t \in DOMAIN task_dicts)
            ~> (t \in DOMAIN task_dicts /\ task_dicts[t].status \in Terminal)

----------------------------------------------------------------------------
\* C30: at most one invocation of a task's function is in progress at any
\* time (`targets` counts the threads that are inside the function of each
\* task dictionary, those that outlived their timeout included).
C30_OneInvocationAtATime ==
    \A t \in DOMAIN targets : targets[t] <= 1
====
